---- MODULE Spec2Model ----
(***************************************************************************)
(* 3d-crossword (src/src/App.tsx, second generation).                      *)
(*                                                                         *)
(* Three state machines over one set of variables:                         *)
(*   Spec       the crossword editor: createCrosswordReducer driven by the *)
(*              handlers of CreateCrossword / CreateCrosswordMenu;         *)
(*   SpecRecon  the letters reconciliation of CreateCrossword, run one     *)
(*              letter at a time over a bounded word list;                 *)
(*   SpecSolve  the solving session of SolveCrossword / CrosswordMenu.     *)
(*                                                                         *)
(* A JavaScript string is a sequence of one-character strings; array and   *)
(* history indices are 0-based as in the source (element i of a sequence s *)
(* is s[i + 1]); null is the integer -1.                                   *)
(***************************************************************************)
EXTENDS Integers, Sequences, FiniteSets, TLC

VARIABLES
    state,        \* CreateCrosswordState held by useReducer
    dragging,     \* a Drag was dispatched and the mouse is not released yet
    keysMidDrag,  \* whether Ctrl+Z / Ctrl+Y in the middle of a drag are explored
    midDragUndos, \* how many Undo/Redo were dispatched in the middle of a drag
    orbitDirty,   \* SetOrbitCenter since the last history entry was adopted
    snaps,        \* side-by-side history of full snapshots (observer)
    dragPre,      \* the state before the first Drag of the drag in progress
    rWords, rCwi, rLetters, rWi, rCi,   \* reconciliation fold
    sCrossword, sWords, sCurrentWordIndex, sOrbitCenter,  \* solving session
    route,        \* the page shown: "create" or "solve"
    lFile,        \* the file the user picks in the page's file input
    fileError,    \* the message under the file input
    lOpened,      \* whether the last pick called onOpen (observer)
    editCrossword, \* first generation: name, words, currentWordIndex, orbitCenter
    picks,        \* the files selected in the file input, in order
    pending       \* the selections whose read has not completed yet

editorVars == <<state, dragging, keysMidDrag, midDragUndos, orbitDirty, snaps,
                dragPre>>
reconVars == <<rWords, rCwi, rLetters, rWi, rCi>>
solveVars == <<sCrossword, sWords, sCurrentWordIndex, sOrbitCenter>>
loadVars == <<route, lFile, fileError, lOpened>>
firstVars == <<editCrossword>>
asyncVars == <<picks, pending>>
vars == <<editorVars, reconVars, solveVars, loadVars, firstVars, asyncVars>>

----------------------------------------------------------------------------
(* Bounds of the model *)

MaxHistory == 4      \* history entries kept by the editor model
MaxHistoryMidDrag == 3  \* the same, when keystrokes in mid-drag are explored
MaxCoord == 1        \* typed / dragged coordinates lie in 0..MaxCoord
MaxWordLen == 2      \* length of a typed word
MaxMidDragUndos == 1 \* Undo/Redo keystrokes explored in the middle of a drag
MaxFirstWords == 2   \* words made in the first-generation editor
MaxPicks == 3        \* files selected while reads are in flight
MaxFirstDrag == 1    \* centers are explored this close to the start limit

null == -1
NaN == -1

Directions == {"X", "Y", "Z"}
Alphabet == {"A", "B", " "}
TypedChars == {"A", "b", " ", "1"}
Names == {"", "N"}
Descriptions == {"", "D"}

Coords == {c \in (0..MaxCoord) \X (0..MaxCoord) \X (0..MaxCoord) :
              c[1] + c[2] + c[3] <= MaxCoord}

RECURSIVE TextsOfLen(_, _)
TextsOfLen(chars, n) ==
    IF n = 0 THEN {<<>>}
    ELSE {Append(t, c) : t \in TextsOfLen(chars, n - 1), c \in chars}

TextsUpTo(chars, n) == UNION {TextsOfLen(chars, k) : k \in 0..n}

----------------------------------------------------------------------------
(* JavaScript helpers *)

Min(a, b) == IF a < b THEN a ELSE b
Max(a, b) == IF a > b THEN a ELSE b

\* Array.prototype.slice(a, b): 0-based, half-open, negative counts from the end
SliceIndex(s, i) == IF i < 0 THEN Max(Len(s) + i, 0) ELSE Min(i, Len(s))
Slice(s, a, b) == SubSeq(s, SliceIndex(s, a) + 1, SliceIndex(s, b))
SliceFrom(s, a) == Slice(s, a, Len(s))

CharCode(ch) ==
    CASE ch = " " -> 32
      [] ch = "1" -> 49
      [] ch = "?" -> 63
      [] ch = "A" -> 65
      [] ch = "B" -> 66
      [] ch = "Z" -> 90
      [] ch = "a" -> 97
      [] ch = "b" -> 98

\* String.prototype.charCodeAt: NaN beyond the end of the string
CharCodeAt(s, i) == IF 0 <= i /\ i < Len(s) THEN CharCode(s[i + 1]) ELSE NaN

UpperChar(ch) ==
    CASE ch = "a" -> "A"
      [] ch = "b" -> "B"
      [] OTHER -> ch

ToUpperCase(s) == [i \in 1..Len(s) |-> UpperChar(s[i])]

onlyContainsUpperCaseAlphabetsAndSpaces(s) ==
    \A i \in 0..(Len(s) - 1) :
        ~ ((CharCode("A") > CharCodeAt(s, i) \/ CharCodeAt(s, i) > CharCode("Z"))
           /\ s[i + 1] # " ")

\* variant: indices below 0 are read as 0
wordLetterPositionFromZero(start, direction, index) ==
    LET i == IF index < 0 THEN 0 ELSE index
    IN  CASE direction = "X" -> <<start[1] + i, start[2], start[3]>>
          [] direction = "Y" -> <<start[1], start[2] - i, start[3]>>
          [] direction = "Z" -> <<start[1], start[2], start[3] + i>>

wordLetterPosition(start, direction, index) ==
    CASE direction = "X" -> <<start[1] + index, start[2], start[3]>>
      [] direction = "Y" -> <<start[1], start[2] - index, start[3]>>
      [] direction = "Z" -> <<start[1], start[2], start[3] + index>>

----------------------------------------------------------------------------
(* Editor state *)

undefinedWord ==
    [word |-> <<>>, direction |-> "undefined", start |-> <<0, 0, 0>>,
     description |-> "undefined"]

\* words[i]
WordAt(ws, i) == IF 0 <= i /\ i < Len(ws) THEN ws[i + 1] ELSE undefinedWord

\* [...ws.slice(0, i), w, ...ws.slice(i + 1)]
ReplaceWord(ws, i, w) ==
    IF i = null THEN <<w>> \o SliceFrom(ws, 1)
    ELSE Slice(ws, 0, i) \o <<w>> \o SliceFrom(ws, i + 1)

NoChange == [type |-> "null"]

HistoryAt(history, i) == history[i + 1]

InitialHistory(name) ==
    <<[crossword |-> [name |-> name, wordsChange |-> NoChange],
       currentWordIndex |-> null,
       orbitCenter |-> <<0, 0, 0>>]>>

InitialState ==
    [crossword |-> [name |-> "", words |-> <<>>],
     currentWordIndex |-> null,
     orbitCenter |-> <<0, 0, 0>>,
     history |-> InitialHistory(""),
     historyIndex |-> 0]

\* an entry that stores the selection and focus from before the edit
RecordStoresOldFocus(s, name, wordsChange, currentWordIndex, orbitCenter) ==
    Slice(s.history, 0, s.historyIndex + 1) \o
        <<[crossword |-> [name |-> name, wordsChange |-> wordsChange],
           currentWordIndex |-> s.currentWordIndex,
           orbitCenter |-> s.orbitCenter]>>

\* an append that forgets history.slice(0, historyIndex + 1)
RecordWithoutSlice(s, name, wordsChange, currentWordIndex, orbitCenter) ==
    s.history \o
        <<[crossword |-> [name |-> name, wordsChange |-> wordsChange],
           currentWordIndex |-> currentWordIndex,
           orbitCenter |-> orbitCenter]>>

\* history: [...history.slice(0, historyIndex + 1), entry], historyIndex + 1
Record(s, name, wordsChange, currentWordIndex, orbitCenter) ==
    Slice(s.history, 0, s.historyIndex + 1) \o
        <<[crossword |-> [name |-> name, wordsChange |-> wordsChange],
           currentWordIndex |-> currentWordIndex,
           orbitCenter |-> orbitCenter]>>

----------------------------------------------------------------------------
(* createCrosswordReducer, one operator per case *)

\* a load that keeps the edit history of the crossword it replaces
SetCrosswordKeepsHistory(s, crossword) ==
    [crossword |-> crossword,
     orbitCenter |-> <<0, 0, 0>>,
     currentWordIndex |-> null,
     history |-> s.history,
     historyIndex |-> s.historyIndex]

SetCrossword(s, crossword) ==
    [crossword |-> crossword,
     orbitCenter |-> <<0, 0, 0>>,
     currentWordIndex |-> null,
     history |-> InitialHistory(crossword.name),
     historyIndex |-> 0]

SetName(s, name) ==
    [s EXCEPT
        !.crossword = [name |-> name, words |-> s.crossword.words],
        !.history = Record(s, name, NoChange, s.currentWordIndex, s.orbitCenter),
        !.historyIndex = s.historyIndex + 1]

\* a NewWord that selects the index after the new word's
NewWordSelectsPastEnd(s) ==
    LET words == s.crossword.words
        newWordIndex == Len(words) + 1
        newCrossword ==
            [name |-> s.crossword.name,
             words |-> Append(words,
                 [word |-> <<>>, direction |-> "X", start |-> s.orbitCenter,
                  description |-> ""])]
    IN  [s EXCEPT
            !.currentWordIndex = newWordIndex,
            !.crossword = newCrossword,
            !.history = Record(s, s.crossword.name, [type |-> "NewWord"],
                               newWordIndex, s.orbitCenter),
            !.historyIndex = s.historyIndex + 1]

NewWord(s) ==
    LET words == s.crossword.words
        newWordIndex == Len(words)
        newCrossword ==
            [name |-> s.crossword.name,
             words |-> Append(words,
                 [word |-> <<>>, direction |-> "X", start |-> s.orbitCenter,
                  description |-> ""])]
    IN  [s EXCEPT
            !.currentWordIndex = newWordIndex,
            !.crossword = newCrossword,
            !.history = Record(s, s.crossword.name, [type |-> "NewWord"],
                               newWordIndex, s.orbitCenter),
            !.historyIndex = s.historyIndex + 1]

SelectWord(s, index) ==
    LET w == WordAt(s.crossword.words, index)
        centerBlockIndex == Len(w.word) \div 2
        centerBlockPosition ==
            wordLetterPosition(w.start, w.direction, centerBlockIndex)
    IN  [s EXCEPT
            !.currentWordIndex = index,
            !.orbitCenter = centerBlockPosition,
            !.history = Record(s, s.crossword.name, NoChange, index,
                               centerBlockPosition),
            !.historyIndex = s.historyIndex + 1]

\* the block test of DeleteWord and of containsOrbitCenter: the orbit center
\* lies between start and endBlock in every dimension
BetweenStartAndEnd(w, orbitCenter) ==
    LET endBlock == wordLetterPosition(w.start, w.direction, Len(w.word) - 1)
    IN  \A i \in 1..3 :
            \/ (w.start[i] <= orbitCenter[i] /\ orbitCenter[i] <= endBlock[i])
            \/ (w.start[i] >= orbitCenter[i] /\ orbitCenter[i] >= endBlock[i])

orbitCenterHasBlock(words, index, orbitCenter) ==
    \E i \in 0..(Len(words) - 1) :
        i # index /\ BetweenStartAndEnd(WordAt(words, i), orbitCenter)

\* DeleteWord whose delta stores index 0 instead of action.index
DeleteWordStoresFirstIndex(s, index) ==
    LET words == s.crossword.words
        newOrbitCenter ==
            IF orbitCenterHasBlock(words, index, s.orbitCenter)
            THEN s.orbitCenter ELSE <<0, 0, 0>>
    IN  [s EXCEPT
            !.orbitCenter = newOrbitCenter,
            !.crossword.words =
                Slice(words, 0, index) \o SliceFrom(words, index + 1),
            !.history = Record(s, s.crossword.name,
                               [type |-> "DeleteWord",
                                word |-> WordAt(words, index),
                                index |-> 0],
                               s.currentWordIndex, newOrbitCenter),
            !.historyIndex = s.historyIndex + 1]

DeleteWord(s, index) ==
    LET words == s.crossword.words
        newOrbitCenter ==
            IF orbitCenterHasBlock(words, index, s.orbitCenter)
            THEN s.orbitCenter ELSE <<0, 0, 0>>
        newCrossword ==
            [name |-> s.crossword.name,
             words |-> Slice(words, 0, index) \o SliceFrom(words, index + 1)]
    IN  [s EXCEPT
            !.orbitCenter = newOrbitCenter,
            !.crossword = newCrossword,
            !.history = Record(s, s.crossword.name,
                               [type |-> "DeleteWord",
                                word |-> WordAt(words, index),
                                index |-> index],
                               s.currentWordIndex, newOrbitCenter),
            !.historyIndex = s.historyIndex + 1]

SetOrbitCenter(s, position) == [s EXCEPT !.orbitCenter = position]

\* a ShowWordList that clears the selection without recording it
ShowWordListUnrecorded(s) == [s EXCEPT !.currentWordIndex = null]

ShowWordList(s) ==
    [s EXCEPT
        !.currentWordIndex = null,
        !.history = Record(s, s.crossword.name, NoChange, null, s.orbitCenter),
        !.historyIndex = s.historyIndex + 1]

SetStart(s, position) ==
    LET words == s.crossword.words
        currentWord == WordAt(words, s.currentWordIndex)
        newOrbitCenter ==
            wordLetterPosition(position, currentWord.direction,
                               Len(currentWord.word) \div 2)
        newWords == ReplaceWord(words, s.currentWordIndex,
                                [currentWord EXCEPT !.start = position])
    IN  [s EXCEPT
            !.orbitCenter = newOrbitCenter,
            !.crossword = [name |-> s.crossword.name, words |-> newWords],
            !.history = Record(s, s.crossword.name,
                               [type |-> "ChangeStart",
                                start |-> position,
                                previousStart |-> currentWord.start],
                               s.currentWordIndex, newOrbitCenter),
            !.historyIndex = s.historyIndex + 1]

SetDirection(s, direction) ==
    LET words == s.crossword.words
        currentWord == WordAt(words, s.currentWordIndex)
        newOrbitCenter ==
            wordLetterPosition(currentWord.start, direction,
                               Len(currentWord.word) \div 2)
        newWords == ReplaceWord(words, s.currentWordIndex,
                                [currentWord EXCEPT !.direction = direction])
    IN  [s EXCEPT
            !.orbitCenter = newOrbitCenter,
            !.crossword = [name |-> s.crossword.name, words |-> newWords],
            !.history = Record(s, s.crossword.name,
                               [type |-> "ChangeDirection",
                                direction |-> direction,
                                previousDirection |-> currentWord.direction],
                               s.currentWordIndex, newOrbitCenter),
            !.historyIndex = s.historyIndex + 1]

SetWord(s, word) ==
    LET words == s.crossword.words
        currentWord == WordAt(words, s.currentWordIndex)
        newOrbitCenter ==
            wordLetterPosition(currentWord.start, currentWord.direction,
                               Len(word) \div 2)
        newWords == ReplaceWord(words, s.currentWordIndex,
                                [currentWord EXCEPT !.word = word])
    IN  [s EXCEPT
            !.orbitCenter = newOrbitCenter,
            !.crossword = [name |-> s.crossword.name, words |-> newWords],
            !.history = Record(s, s.crossword.name,
                               [type |-> "ChangeWord",
                                word |-> word,
                                previousWord |-> currentWord.word],
                               s.currentWordIndex, newOrbitCenter),
            !.historyIndex = s.historyIndex + 1]

SetDescription(s, description) ==
    LET words == s.crossword.words
        currentWord == WordAt(words, s.currentWordIndex)
        newWords == ReplaceWord(words, s.currentWordIndex,
                                [currentWord EXCEPT !.description = description])
    IN  [s EXCEPT
            !.crossword = [name |-> s.crossword.name, words |-> newWords],
            !.history = Record(s, s.crossword.name,
                               [type |-> "ChangeDescription",
                                description |-> description,
                                previousDescription |-> currentWord.description],
                               s.currentWordIndex, s.orbitCenter),
            !.historyIndex = s.historyIndex + 1]

\* start of the current word when its center block is at center
StartForCenter(currentWord, center) ==
    wordLetterPosition(center, currentWord.direction,
                       0 - (Len(currentWord.word) \div 2))

\* a Drag that also moves the orbit center, as DragEnd does
DragMovesFocus(s, center) ==
    LET words == s.crossword.words
        currentWord == WordAt(words, s.currentWordIndex)
        newStart == StartForCenter(currentWord, center)
    IN  [s EXCEPT
            !.orbitCenter = center,
            !.crossword.words =
                ReplaceWord(words, s.currentWordIndex,
                            [currentWord EXCEPT !.start = newStart])]

Drag(s, center) ==
    LET words == s.crossword.words
        currentWord == WordAt(words, s.currentWordIndex)
        newStart == StartForCenter(currentWord, center)
    IN  [s EXCEPT
            !.crossword.words =
                ReplaceWord(words, s.currentWordIndex,
                            [currentWord EXCEPT !.start = newStart])]

DragEnd(s, center) ==
    LET words == s.crossword.words
        currentWord == WordAt(words, s.currentWordIndex)
        previousStart == StartForCenter(currentWord, s.orbitCenter)
        newStart == StartForCenter(currentWord, center)
    IN  [s EXCEPT
            !.orbitCenter = center,
            !.crossword.words =
                ReplaceWord(words, s.currentWordIndex,
                            [currentWord EXCEPT !.start = newStart]),
            !.history = Record(s, s.crossword.name,
                               [type |-> "ChangeStart",
                                start |-> newStart,
                                previousStart |-> previousStart],
                               s.currentWordIndex, center),
            !.historyIndex = s.historyIndex + 1]

\* the inverse of the delta stored at history[historyIndex]
UndoWords(words, entry) ==
    LET wordsChange == entry.crossword.wordsChange
        i == entry.currentWordIndex
    IN  CASE wordsChange.type = "NewWord" ->
                Slice(words, 0, Len(words) - 1)
          [] wordsChange.type = "DeleteWord" ->
                Slice(words, 0, wordsChange.index) \o <<wordsChange.word>> \o
                    SliceFrom(words, wordsChange.index)
          [] wordsChange.type = "ChangeStart" ->
                ReplaceWord(words, i,
                    [WordAt(words, i) EXCEPT !.start = wordsChange.previousStart])
          [] wordsChange.type = "ChangeDirection" ->
                ReplaceWord(words, i,
                    [WordAt(words, i) EXCEPT
                        !.direction = wordsChange.previousDirection])
          [] wordsChange.type = "ChangeWord" ->
                ReplaceWord(words, i,
                    [WordAt(words, i) EXCEPT !.word = wordsChange.previousWord])
          [] wordsChange.type = "ChangeDescription" ->
                ReplaceWord(words, i,
                    [WordAt(words, i) EXCEPT
                        !.description = wordsChange.previousDescription])
          [] OTHER -> words

\* Undo whose boundary test is off by one
UndoStopsEarly(s) ==
    IF s.historyIndex <= 1 THEN s
    ELSE LET adopted == HistoryAt(s.history, s.historyIndex - 1)
         IN  [history |-> s.history,
              historyIndex |-> s.historyIndex - 1,
              currentWordIndex |-> adopted.currentWordIndex,
              orbitCenter |-> adopted.orbitCenter,
              crossword |-> [name |-> adopted.crossword.name,
                             words |-> UndoWords(s.crossword.words,
                                 HistoryAt(s.history, s.historyIndex))]]

Undo(s) ==
    IF s.historyIndex = 0 THEN s
    ELSE LET adopted == HistoryAt(s.history, s.historyIndex - 1)
             newWords == UndoWords(s.crossword.words,
                                   HistoryAt(s.history, s.historyIndex))
         IN  [history |-> s.history,
              historyIndex |-> s.historyIndex - 1,
              currentWordIndex |-> adopted.currentWordIndex,
              orbitCenter |-> adopted.orbitCenter,
              crossword |-> [name |-> adopted.crossword.name,
                             words |-> newWords]]

\* the delta stored at history[historyIndex + 1], applied forward
RedoWords(words, entry) ==
    LET wordsChange == entry.crossword.wordsChange
        i == entry.currentWordIndex
    IN  CASE wordsChange.type = "NewWord" ->
                Append(words,
                    [word |-> <<>>, description |-> "", direction |-> "X",
                     start |-> entry.orbitCenter])
          [] wordsChange.type = "DeleteWord" ->
                Slice(words, 0, wordsChange.index) \o
                    SliceFrom(words, wordsChange.index + 1)
          [] wordsChange.type = "ChangeStart" ->
                ReplaceWord(words, i,
                    [WordAt(words, i) EXCEPT !.start = wordsChange.start])
          [] wordsChange.type = "ChangeDirection" ->
                ReplaceWord(words, i,
                    [WordAt(words, i) EXCEPT !.direction = wordsChange.direction])
          [] wordsChange.type = "ChangeWord" ->
                ReplaceWord(words, i,
                    [WordAt(words, i) EXCEPT !.word = wordsChange.word])
          [] wordsChange.type = "ChangeDescription" ->
                ReplaceWord(words, i,
                    [WordAt(words, i) EXCEPT
                        !.description = wordsChange.description])
          [] OTHER -> words

\* Redo that keeps the live orbit center instead of adopting the entry's
RedoKeepsOrbitCenter(s) ==
    IF s.historyIndex = Len(s.history) - 1 THEN s
    ELSE LET adopted == HistoryAt(s.history, s.historyIndex + 1)
         IN  [history |-> s.history,
              historyIndex |-> s.historyIndex + 1,
              currentWordIndex |-> adopted.currentWordIndex,
              orbitCenter |-> s.orbitCenter,
              crossword |-> [name |-> adopted.crossword.name,
                             words |-> RedoWords(s.crossword.words, adopted)]]

Redo(s) ==
    IF s.historyIndex = Len(s.history) - 1 THEN s
    ELSE LET adopted == HistoryAt(s.history, s.historyIndex + 1)
             newWords == RedoWords(s.crossword.words, adopted)
         IN  [history |-> s.history,
              historyIndex |-> s.historyIndex + 1,
              currentWordIndex |-> adopted.currentWordIndex,
              orbitCenter |-> adopted.orbitCenter,
              crossword |-> [name |-> adopted.crossword.name,
                             words |-> newWords]]

----------------------------------------------------------------------------
(* CreateCrossword: letters reconciliation (the Map letters) *)

\* opacity in tenths: 1.0 is 10, 0.1 is 1
LetterOpacity(currentWordIndex, wordIndex) ==
    IF currentWordIndex = null \/ currentWordIndex = wordIndex THEN 10 ELSE 1

\* variant: a conflict is charged to the word that arrives last only
LetterStepBlamesLaterWord(letters, ch, position, wordIndex, currentWordIndex) ==
    LET own == LetterOpacity(currentWordIndex, wordIndex) IN
    IF position \notin DOMAIN letters
    THEN letters @@ (position :>
            [letter |-> ch, position |-> position, opacity |-> own,
             lettersBy |-> <<wordIndex>>])
    ELSE LET entry == letters[position]
             merged(letter) ==
                [letter |-> letter, position |-> position,
                 opacity |-> Max(own, entry.opacity),
                 lettersBy |-> IF letter = "?" /\ entry.letter # "?"
                                 THEN <<wordIndex>>
                                 ELSE Append(entry.lettersBy, wordIndex)]
         IN  [letters EXCEPT ![position] =
                IF entry.letter = " " THEN merged(ch)
                ELSE IF ch = " " \/ entry.letter = ch THEN merged(entry.letter)
                ELSE merged("?")]

\* variant: a blank is compared like any other letter
LetterStepBlankConflicts(letters, ch, position, wordIndex, currentWordIndex) ==
    LET own == LetterOpacity(currentWordIndex, wordIndex) IN
    IF position \notin DOMAIN letters
    THEN letters @@ (position :>
            [letter |-> ch, position |-> position, opacity |-> own,
             lettersBy |-> <<wordIndex>>])
    ELSE LET entry == letters[position]
             merged(letter) ==
                [letter |-> letter, position |-> position,
                 opacity |-> Max(own, entry.opacity),
                 lettersBy |-> Append(entry.lettersBy, wordIndex)]
         IN  [letters EXCEPT ![position] =
                IF entry.letter = " " THEN merged(ch)
                ELSE IF entry.letter = ch THEN merged(entry.letter)
                ELSE merged("?")]

\* variant: a differing letter replaces the one already there
LetterStepLastLetterWins(letters, ch, position, wordIndex, currentWordIndex) ==
    LET own == LetterOpacity(currentWordIndex, wordIndex) IN
    IF position \notin DOMAIN letters
    THEN letters @@ (position :>
            [letter |-> ch, position |-> position, opacity |-> own,
             lettersBy |-> <<wordIndex>>])
    ELSE LET entry == letters[position]
             merged(letter) ==
                [letter |-> letter, position |-> position,
                 opacity |-> Max(own, entry.opacity),
                 lettersBy |-> Append(entry.lettersBy, wordIndex)]
         IN  [letters EXCEPT ![position] =
                IF entry.letter = " " THEN merged(ch)
                ELSE IF ch = " " \/ entry.letter = ch THEN merged(entry.letter)
                ELSE merged(ch)]

\* variant: a second copy of the letter already there is a conflict
LetterStepEqualConflicts(letters, ch, position, wordIndex, currentWordIndex) ==
    LET own == LetterOpacity(currentWordIndex, wordIndex) IN
    IF position \notin DOMAIN letters
    THEN letters @@ (position :>
            [letter |-> ch, position |-> position, opacity |-> own,
             lettersBy |-> <<wordIndex>>])
    ELSE LET entry == letters[position]
             merged(letter) ==
                [letter |-> letter, position |-> position,
                 opacity |-> Max(own, entry.opacity),
                 lettersBy |-> Append(entry.lettersBy, wordIndex)]
         IN  [letters EXCEPT ![position] =
                IF entry.letter = " " THEN merged(ch)
                ELSE IF ch = " " THEN merged(entry.letter)
                ELSE merged("?")]

\* variant: on a disagreement the letter of the selected word is shown
LetterStepSelectedWins(letters, ch, position, wordIndex, currentWordIndex) ==
    LET own == LetterOpacity(currentWordIndex, wordIndex) IN
    IF position \notin DOMAIN letters
    THEN letters @@ (position :>
            [letter |-> ch, position |-> position, opacity |-> own,
             lettersBy |-> <<wordIndex>>])
    ELSE LET entry == letters[position]
             merged(letter) ==
                [letter |-> letter, position |-> position,
                 opacity |-> Max(own, entry.opacity),
                 lettersBy |-> Append(entry.lettersBy, wordIndex)]
         IN  [letters EXCEPT ![position] =
                IF entry.letter = " " THEN merged(ch)
                ELSE IF ch = " " \/ entry.letter = ch THEN merged(entry.letter)
                ELSE IF currentWordIndex = wordIndex THEN merged(ch)
                ELSE merged("?")]

\* the body of the inner loop: letter ch of word wordIndex lands on position
LetterStep(letters, ch, position, wordIndex, currentWordIndex) ==
    LET own == LetterOpacity(currentWordIndex, wordIndex) IN
    IF position \notin DOMAIN letters
    THEN letters @@ (position :>
            [letter |-> ch, position |-> position, opacity |-> own,
             lettersBy |-> <<wordIndex>>])
    ELSE LET entry == letters[position]
             merged(letter) ==
                [letter |-> letter, position |-> position,
                 opacity |-> Max(own, entry.opacity),
                 lettersBy |-> Append(entry.lettersBy, wordIndex)]
         IN  [letters EXCEPT ![position] =
                IF entry.letter = " " THEN merged(ch)
                ELSE IF ch = " " \/ entry.letter = ch THEN merged(entry.letter)
                ELSE merged("?")]

RECURSIVE LettersFrom(_, _, _, _, _)
LettersFrom(words, currentWordIndex, wi, i, letters) ==
    IF wi >= Len(words) THEN letters
    ELSE LET w == words[wi + 1] IN
         IF i >= Len(w.word)
         THEN LettersFrom(words, currentWordIndex, wi + 1, 0, letters)
         ELSE LettersFrom(words, currentWordIndex, wi, i + 1,
                  LetterStep(letters, w.word[i + 1],
                             wordLetterPosition(w.start, w.direction, i),
                             wi, currentWordIndex))

NoLetters == <<>>

Letters(words, currentWordIndex) ==
    LettersFrom(words, currentWordIndex, 0, 0, NoLetters)

\* variant: a conflict invalidates only the word that arrived last
wordValidityBlamesLast(words, letters) ==
    [k \in 1..Len(words) |->
        LET w == words[k] IN
        /\ w.description # ""
        /\ Len(w.word) # 0
        /\ \A j \in 1..Len(w.word) : w.word[j] # " "
        /\ \A position \in DOMAIN letters :
              letters[position].letter = "?" =>
                  letters[position].lettersBy[Len(letters[position].lettersBy)]
                      # k - 1]

\* CreateCrosswordMenu: wordValidity
wordValidity(words, letters) ==
    [k \in 1..Len(words) |->
        LET w == words[k] IN
        /\ w.description # ""
        /\ Len(w.word) # 0
        /\ \A j \in 1..Len(w.word) : w.word[j] # " "
        /\ \A position \in DOMAIN letters :
              letters[position].letter = "?" =>
                  \A n \in 1..Len(letters[position].lettersBy) :
                      letters[position].lettersBy[n] # k - 1]

\* CreateCrosswordMenu: allowSave
RECURSIVE AllValidFrom(_, _)
AllValidFrom(validity, i) ==
    IF i >= Len(validity) THEN TRUE
    ELSE IF ~validity[i + 1] THEN FALSE
    ELSE AllValidFrom(validity, i + 1)

\* variant: the test on words.length is missing
allowSaveIgnoresWordCount(name, words, letters) ==
    AllValidFrom(wordValidity(words, letters), 0) /\ ~(name = "")

allowSave(name, words, letters) ==
    /\ AllValidFrom(wordValidity(words, letters), 0)
    /\ ~(name = "" \/ Len(words) = 0)

----------------------------------------------------------------------------
(* OpenCrossword: the validity check run on a parsed, schema-valid file *)

\* word[i].charCodeAt(i): word[i] is a one-character string
LetterCodeAt(word, i) == CharCodeAt(<<word[i + 1]>>, i)

\* NaN compares false with everything
NotUpperCase(word, i) ==
    LET code == LetterCodeAt(word, i)
    IN  code # NaN /\ (code < CharCode("A") \/ code > CharCode("Z"))

RECURSIVE CheckFrom(_, _, _, _)
CheckFrom(words, wi, i, letters) ==
    IF wi >= Len(words) THEN TRUE
    ELSE LET w == words[wi + 1] IN
         IF i >= Len(w.word) THEN CheckFrom(words, wi + 1, 0, letters)
         ELSE IF NotUpperCase(w.word, i) THEN FALSE
         ELSE LET position == wordLetterPosition(w.start, w.direction, i) IN
              IF position \notin DOMAIN letters
              THEN CheckFrom(words, wi, i + 1,
                             letters @@ (position :> w.word[i + 1]))
              ELSE IF letters[position] # w.word[i + 1] THEN FALSE
              ELSE CheckFrom(words, wi, i + 1, letters)

\* variant: the letters already seen are never compared
CrosswordAcceptedNoCompare(crossword) ==
    \A k \in 1..Len(crossword.words) :
        \A i \in 0..(Len(crossword.words[k].word) - 1) :
            ~NotUpperCase(crossword.words[k].word, i)

\* TRUE when onOpen(crossword) is called, FALSE for "Invalid crossword"
CrosswordAccepted(crossword) == CheckFrom(crossword.words, 0, 0, NoLetters)

FileWord(word, direction, start) ==
    [word |-> word, direction |-> direction, start |-> start,
     description |-> "D"]

\* parsed, schema-valid files offered to the file input
Files ==
    { [name |-> "N", words |-> <<FileWord(<<"A", "B">>, "X", <<0, 0, 0>>),
                                 FileWord(<<"B", "A">>, "Y", <<1, 0, 0>>)>>],
      [name |-> "N", words |-> <<FileWord(<<"A", "B">>, "X", <<0, 0, 0>>),
                                 FileWord(<<"A", "A">>, "Y", <<1, 0, 0>>)>>],
      [name |-> "N", words |-> <<FileWord(<<"A">>, "Z", <<0, 1, 0>>)>>] }

EmptyCrossword == [name |-> "", words |-> <<>>]

\* variant: WORLD starts on the last letter of HELLO
ExampleCrosswordCrossing ==
    [name |-> "Example",
     words |-> <<[word |-> <<"H", "E", "L", "L", "O">>, direction |-> "X",
                  start |-> <<0, 0, 0>>, description |-> "Greeting"],
                 [word |-> <<"W", "O", "R", "L", "D">>, direction |-> "Y",
                  start |-> <<4, 0, 0>>, description |-> "Earth"]>>]

EXAMPLE_CROSSWORD ==
    [name |-> "Example",
     words |-> <<[word |-> <<"H", "E", "L", "L", "O">>, direction |-> "X",
                  start |-> <<0, 0, 0>>, description |-> "Greeting"],
                 [word |-> <<"W", "O", "R", "L", "D">>, direction |-> "Y",
                  start |-> <<4, 1, 0>>, description |-> "Earth"]>>]

\* the file input holds no file
NoFile == [kind |-> "none"]

\* crosswordSchema.parse on a parsed JSON value
SchemaAccepts(value) ==
    /\ value.name # ""
    /\ \A k \in 1..Len(value.words) :
          /\ Len(value.words[k].word) >= 1
          /\ value.words[k].direction \in {"X", "Y", "Z"}
          /\ Len(value.words[k].start) = 3
          /\ value.words[k].description # ""

\* variant: onOpen is called before the validity check
LoadOutcomeOpensFirst(file) ==
    IF file.kind = "none" THEN [error |-> "", opened |-> <<>>]
    ELSE IF file.kind = "unreadable"
    THEN [error |-> "Couldn't open the file", opened |-> <<>>]
    ELSE IF file.json = <<>> \/ ~SchemaAccepts(file.json[1])
    THEN [error |-> "Invalid file", opened |-> <<>>]
    ELSE IF ~CrosswordAccepted(file.json[1])
    THEN [error |-> "Invalid crossword", opened |-> file.json]
    ELSE [error |-> "", opened |-> file.json]

\* OpenCrossword onChange: the message set, and the crossword onOpen gets
LoadOutcome(file) ==
    IF file.kind = "none" THEN [error |-> "", opened |-> <<>>]
    ELSE IF file.kind = "unreadable"
    THEN [error |-> "Couldn't open the file", opened |-> <<>>]
    ELSE IF file.json = <<>> \/ ~SchemaAccepts(file.json[1])
    THEN [error |-> "Invalid file", opened |-> <<>>]
    ELSE IF ~CrosswordAccepted(file.json[1])
    THEN [error |-> "Invalid crossword", opened |-> <<>>]
    ELSE [error |-> "", opened |-> file.json]

\* variant: an export that leaves the descriptions out
ExportedFileWithoutDescriptions(s) ==
    [kind |-> "text",
     json |-> <<[name |-> s.crossword.name,
                 words |-> [k \in 1..Len(s.crossword.words) |->
                     [word |-> s.crossword.words[k].word,
                      direction |-> s.crossword.words[k].direction,
                      start |-> s.crossword.words[k].start,
                      description |-> ""]]]>>]

\* "Save crossword": the file holds JSON.stringify({ name, words })
ExportedFile(s) ==
    [kind |-> "text",
     json |-> <<[name |-> s.crossword.name,
                 words |-> [k \in 1..Len(s.crossword.words) |->
                     [word |-> s.crossword.words[k].word,
                      direction |-> s.crossword.words[k].direction,
                      start |-> s.crossword.words[k].start,
                      description |-> s.crossword.words[k].description]]]>>]

----------------------------------------------------------------------------
(* Editor: observers *)

View(s) ==
    [name |-> s.crossword.name, words |-> s.crossword.words,
     currentWordIndex |-> s.currentWordIndex, orbitCenter |-> s.orbitCenter]

CurrentWord(s) == WordAt(s.crossword.words, s.currentWordIndex)

\* the state is the one its history describes: no half-finished drag, no
\* undo/redo in the middle of a drag, no block click since the last entry
tainted == midDragUndos > 0

Clean == ~dragging /\ ~tainted /\ ~orbitDirty

HistoryBound == IF keysMidDrag THEN MaxHistoryMidDrag ELSE MaxHistory

\* observers after a history-recording edit that led to state new
Recorded(new) ==
    /\ state.historyIndex + 2 <= HistoryBound
    /\ state' = new
    /\ snaps' = Slice(snaps, 0, state.historyIndex + 1) \o <<View(new)>>
    /\ orbitDirty' = FALSE
    /\ dragging' = FALSE
    /\ dragPre' = View(new)
    /\ UNCHANGED <<keysMidDrag, midDragUndos>>
    /\ UNCHANGED <<reconVars, solveVars, loadVars, firstVars, asyncVars>>

----------------------------------------------------------------------------
(* Editor: what each handler can dispatch in state s, as the set of the    *)
(* reducer's results                                                       *)

\* OpenCrossword onOpen (1541-1546) and "+ New crossword" (1551-1560)
SetCrosswordResults(s) ==
    {SetCrossword(s, crossword) :
        crossword \in {f \in Files : CrosswordAccepted(f)} \cup {EmptyCrossword}}

SetNameResults(s) == {SetName(s, name) : name \in Names}

NewWordResults(s) == IF s.currentWordIndex = null THEN {NewWord(s)} ELSE {}

SelectWordResults(s) ==
    IF s.currentWordIndex = null
    THEN {SelectWord(s, index) : index \in 0..(Len(s.crossword.words) - 1)}
    ELSE {}

DeleteWordResults(s) ==
    IF s.currentWordIndex = null
    THEN {DeleteWord(s, index) : index \in 0..(Len(s.crossword.words) - 1)}
    ELSE {}

\* block onClick: only while no word is selected
SetOrbitCenterResults(s) ==
    IF s.currentWordIndex = null
    THEN {SetOrbitCenter(s, position) :
            position \in DOMAIN Letters(s.crossword.words, s.currentWordIndex)}
    ELSE {}

ShowWordListResults(s) ==
    IF s.currentWordIndex # null THEN {ShowWordList(s)} ELSE {}

\* IntegerInput onValueChange: one component of the start is replaced
SetStartResults(s) ==
    IF s.currentWordIndex # null
    THEN {SetStart(s, [CurrentWord(s).start EXCEPT ![i] = value]) :
            i \in 1..3, value \in 0..MaxCoord}
    ELSE {}

SetDirectionResults(s) ==
    IF s.currentWordIndex # null
    THEN {SetDirection(s, direction) : direction \in Directions}
    ELSE {}

\* word input onChange: upper-cased, dispatched only when A-Z and spaces
SetWordResults(s) ==
    IF s.currentWordIndex # null
    THEN {SetWord(s, ToUpperCase(typed)) :
            typed \in {t \in TextsUpTo(TypedChars, MaxWordLen) :
                onlyContainsUpperCaseAlphabetsAndSpaces(ToUpperCase(t))}}
    ELSE {}

SetDescriptionResults(s) ==
    IF s.currentWordIndex # null
    THEN {SetDescription(s, description) : description \in Descriptions}
    ELSE {}

\* WordPositionControls is rendered while the selected word has letters
ControlsShown(s) ==
    s.currentWordIndex # null /\ Len(CurrentWord(s).word) > 0

\* onObjectChange
DragResults(s) ==
    IF ControlsShown(s) THEN {Drag(s, center) : center \in Coords} ELSE {}

\* onMouseUp
DragEndResults(s) ==
    IF ControlsShown(s) THEN {DragEnd(s, center) : center \in Coords} ELSE {}

----------------------------------------------------------------------------
(* Editor: actions *)

DispatchSetCrossword ==
    /\ ~dragging
    /\ \E new \in SetCrosswordResults(state) : state' = new
    /\ snaps' = <<View(state')>>
    /\ orbitDirty' = FALSE
    /\ dragging' = FALSE
    /\ midDragUndos' = 0
    /\ UNCHANGED keysMidDrag
    /\ dragPre' = View(state')
    /\ UNCHANGED <<reconVars, solveVars, loadVars, firstVars, asyncVars>>

DispatchSetName ==
    ~dragging /\ \E new \in SetNameResults(state) : Recorded(new)

DispatchNewWord ==
    ~dragging /\ \E new \in NewWordResults(state) : Recorded(new)

DispatchSelectWord ==
    ~dragging /\ \E new \in SelectWordResults(state) : Recorded(new)

DispatchDeleteWord ==
    ~dragging /\ \E new \in DeleteWordResults(state) : Recorded(new)

DispatchSetOrbitCenter ==
    /\ ~dragging
    /\ \E new \in SetOrbitCenterResults(state) : state' = new
    /\ orbitDirty' = TRUE
    /\ dragPre' = View(state')
    /\ UNCHANGED <<snaps, dragging, keysMidDrag, midDragUndos, reconVars, solveVars, loadVars, firstVars, asyncVars>>

DispatchShowWordList ==
    ~dragging /\ \E new \in ShowWordListResults(state) : Recorded(new)

DispatchSetStart ==
    ~dragging /\ \E new \in SetStartResults(state) : Recorded(new)

DispatchSetDirection ==
    ~dragging /\ \E new \in SetDirectionResults(state) : Recorded(new)

DispatchSetWord ==
    ~dragging /\ \E new \in SetWordResults(state) : Recorded(new)

DispatchSetDescription ==
    ~dragging /\ \E new \in SetDescriptionResults(state) : Recorded(new)

\* dragPre keeps the state before the first Drag until the mouse is released
DispatchDrag ==
    /\ \E new \in DragResults(state) : state' = new
    /\ dragging' = TRUE
    /\ UNCHANGED <<snaps, orbitDirty, keysMidDrag, midDragUndos, dragPre, reconVars,
                   solveVars, loadVars, firstVars, asyncVars>>

DispatchDragEnd ==
    \E new \in DragEndResults(state) : Recorded(new)

\* keydown Ctrl+Z, at any time
DispatchUndo ==
    /\ dragging => (keysMidDrag /\ midDragUndos < MaxMidDragUndos)
    /\ state' = Undo(state)
    /\ IF state.historyIndex = 0
       THEN UNCHANGED <<orbitDirty, dragging, midDragUndos, dragPre>>
       ELSE /\ orbitDirty' = FALSE
            /\ dragging' = FALSE
            /\ midDragUndos' = IF dragging THEN midDragUndos + 1 ELSE midDragUndos
            /\ dragPre' = View(state')
    /\ UNCHANGED <<snaps, keysMidDrag, reconVars, solveVars, loadVars, firstVars, asyncVars>>

\* keydown Ctrl+Y, at any time
DispatchRedo ==
    /\ dragging => (keysMidDrag /\ midDragUndos < MaxMidDragUndos)
    /\ state' = Redo(state)
    /\ IF state.historyIndex = Len(state.history) - 1
       THEN UNCHANGED <<orbitDirty, dragging, midDragUndos, dragPre>>
       ELSE /\ orbitDirty' = FALSE
            /\ dragging' = FALSE
            /\ midDragUndos' = IF dragging THEN midDragUndos + 1 ELSE midDragUndos
            /\ dragPre' = View(state')
    /\ UNCHANGED <<snaps, keysMidDrag, reconVars, solveVars, loadVars, firstVars, asyncVars>>

----------------------------------------------------------------------------
(* Reconciliation, one letter per step, over a bounded word list *)

MaxReconWords == 3
MaxReconLetters == 4

\* words start on the x axis, so that words of every direction can cross
ReconStarts == {<<x, 0, 0>> : x \in 0..MaxCoord}

ReconWords ==
    {FileWord(t, d, c) : t \in TextsUpTo(Alphabet, MaxWordLen),
                         d \in Directions, c \in ReconStarts}

RECURSIVE LettersIn(_, _)
LettersIn(words, i) ==
    IF i >= Len(words) THEN 0
    ELSE Len(words[i + 1].word) + LettersIn(words, i + 1)

ReconLists ==
    {words \in UNION {[1..n -> ReconWords] : n \in 0..MaxReconWords} :
        LettersIn(words, 0) <= MaxReconLetters}

ReconDone == rWi >= Len(rWords)

\* the letter the fold is about to place, and where
ReconChar == rWords[rWi + 1].word[rCi + 1]
ReconPosition ==
    wordLetterPosition(rWords[rWi + 1].start, rWords[rWi + 1].direction, rCi)

ReconLetter ==
    /\ ~ReconDone
    /\ rCi < Len(rWords[rWi + 1].word)
    /\ rLetters' = LetterStep(rLetters, ReconChar, ReconPosition, rWi, rCwi)
    /\ rCi' = rCi + 1
    /\ UNCHANGED <<rWords, rCwi, rWi, editorVars, solveVars, loadVars, firstVars, asyncVars>>

ReconNextWord ==
    /\ ~ReconDone
    /\ rCi >= Len(rWords[rWi + 1].word)
    /\ rWi' = rWi + 1
    /\ rCi' = 0
    /\ UNCHANGED <<rWords, rCwi, rLetters, editorVars, solveVars, loadVars, firstVars, asyncVars>>

----------------------------------------------------------------------------
(* SolveCrossword / CrosswordMenu / ViewCrossword *)

\* files offered to the solver's file input
SolveFiles ==
    Files \cup
    { [name |-> "N", words |-> <<>>],
      [name |-> "N", words |-> <<FileWord(<<"A", "b">>, "X", <<0, 0, 0>>)>>],
      [name |-> "N", words |-> <<FileWord(<<"A", " ">>, "X", <<0, 0, 0>>)>>] }

\* crossword is null until a file is opened
Opened == Len(sCrossword) = 1
Puzzle == sCrossword[1]

\* the solved loop of CrosswordMenu and of ViewCrossword
RECURSIVE SolvedFrom(_, _, _)
SolvedFrom(crossword, words, i) ==
    IF i >= Len(crossword.words) THEN TRUE
    ELSE IF crossword.words[i + 1].word # words[i + 1] THEN FALSE
    ELSE SolvedFrom(crossword, words, i + 1)

\* variant: the loop starts at the second word
solvedSkipsFirstWord(crossword, words) == SolvedFrom(crossword, words, 1)

solved(crossword, words) == SolvedFrom(crossword, words, 0)

\* CrosswordMenu: every block of the answers starts as a blank nobody placed
RECURSIVE SolveBlanksFrom(_, _, _, _)
SolveBlanksFrom(answers, wi, i, letters) ==
    IF wi >= Len(answers) THEN letters
    ELSE LET w == answers[wi + 1] IN
         IF i >= Len(w.word) THEN SolveBlanksFrom(answers, wi + 1, 0, letters)
         ELSE LET position == wordLetterPosition(w.start, w.direction, i)
                  blank == [letter |-> " ", lettersBy |-> <<>>]
              IN  SolveBlanksFrom(answers, wi, i + 1,
                      IF position \in DOMAIN letters
                      THEN [letters EXCEPT ![position] = blank]
                      ELSE letters @@ (position :> blank))

\* CrosswordMenu: letter ch of guess wordIndex lands on position
SolveLetterStep(letters, ch, position, wordIndex) ==
    LET entry == letters[position]
        merged(letter) ==
            [letter |-> letter, lettersBy |-> Append(entry.lettersBy, wordIndex)]
    IN  [letters EXCEPT ![position] =
            IF entry.letter = " " THEN merged(ch)
            ELSE IF ch = " " \/ entry.letter = ch THEN merged(entry.letter)
            ELSE merged("?")]

RECURSIVE SolveLettersFrom(_, _, _, _, _)
SolveLettersFrom(answers, words, wi, i, letters) ==
    IF wi >= Len(words) THEN letters
    ELSE IF i >= Len(words[wi + 1])
    THEN SolveLettersFrom(answers, words, wi + 1, 0, letters)
    ELSE SolveLettersFrom(answers, words, wi, i + 1,
             SolveLetterStep(letters, words[wi + 1][i + 1],
                 wordLetterPosition(answers[wi + 1].start,
                                    answers[wi + 1].direction, i),
                 wi))

SolveLetters(crossword, words) ==
    SolveLettersFrom(crossword.words, words, 0, 0,
                     SolveBlanksFrom(crossword.words, 0, 0, NoLetters))

\* ViewCrossword: every block of the answers starts as a blank nobody placed,
\* as visible as the most visible answer word on it
RECURSIVE ViewBlanksFrom(_, _, _, _, _)
ViewBlanksFrom(answers, currentWordIndex, wi, i, letters) ==
    IF wi >= Len(answers) THEN letters
    ELSE LET w == answers[wi + 1] IN
         IF i >= Len(w.word)
         THEN ViewBlanksFrom(answers, currentWordIndex, wi + 1, 0, letters)
         ELSE LET position == wordLetterPosition(w.start, w.direction, i)
                  own == LetterOpacity(currentWordIndex, wi)
                  blank(opacity) ==
                      [letter |-> " ", position |-> position,
                       opacity |-> opacity, lettersBy |-> <<>>]
              IN  ViewBlanksFrom(answers, currentWordIndex, wi, i + 1,
                      IF position \in DOMAIN letters
                      THEN [letters EXCEPT ![position] =
                               blank(Max(own, letters[position].opacity))]
                      ELSE letters @@ (position :> blank(own)))

\* ViewCrossword: the guesses are laid over the blanks
RECURSIVE ViewLettersFrom(_, _, _, _, _, _)
ViewLettersFrom(answers, words, currentWordIndex, wi, i, letters) ==
    IF wi >= Len(words) THEN letters
    ELSE IF i >= Len(words[wi + 1])
    THEN ViewLettersFrom(answers, words, currentWordIndex, wi + 1, 0, letters)
    ELSE LET ch == words[wi + 1][i + 1]
             position == wordLetterPosition(answers[wi + 1].start,
                                            answers[wi + 1].direction, i)
             entry == letters[position]
             merged(letter) ==
                 [letter |-> letter, position |-> position,
                  opacity |-> Max(LetterOpacity(currentWordIndex, wi),
                                  entry.opacity),
                  lettersBy |-> Append(entry.lettersBy, wi)]
         IN  ViewLettersFrom(answers, words, currentWordIndex, wi, i + 1,
                 [letters EXCEPT ![position] =
                     IF entry.letter = " " THEN merged(ch)
                     ELSE IF ch = " " \/ entry.letter = ch THEN merged(entry.letter)
                     ELSE merged("?")])

\* variant: a guess letter on a blank is charged to no word
ViewLettersForgetsFirst(crossword, words, currentWordIndex) ==
    LET letters == ViewLettersFrom(crossword.words, words, currentWordIndex, 0, 0,
                       ViewBlanksFrom(crossword.words, currentWordIndex, 0, 0,
                                      NoLetters))
    IN  [position \in DOMAIN letters |->
            IF Len(letters[position].lettersBy) = 1
            THEN [letters[position] EXCEPT !.lettersBy = <<>>]
            ELSE letters[position]]

ViewLetters(crossword, words, currentWordIndex) ==
    ViewLettersFrom(crossword.words, words, currentWordIndex, 0, 0,
        ViewBlanksFrom(crossword.words, currentWordIndex, 0, 0, NoLetters))

\* variant: the comparison of the lengths is missing
solveWordValidityIgnoresLength(crossword, words, letters) ==
    [k \in 1..Len(words) |->
        /\ \A position \in DOMAIN letters :
              letters[position].letter = "?" =>
                  \A n \in 1..Len(letters[position].lettersBy) :
                      letters[position].lettersBy[n] # k - 1
        /\ \A j \in 1..Len(words[k]) : words[k][j] # " "]

\* CrosswordMenu: wordValidity
solveWordValidity(crossword, words, letters) ==
    [k \in 1..Len(words) |->
        /\ \A position \in DOMAIN letters :
              letters[position].letter = "?" =>
                  \A n \in 1..Len(letters[position].lettersBy) :
                      letters[position].lettersBy[n] # k - 1
        /\ Len(words[k]) = Len(crossword.words[k].word)
        /\ \A j \in 1..Len(words[k]) : words[k][j] # " "]

\* onOpen of SolveCrossword
SolveOpen ==
    /\ \E crossword \in {f \in SolveFiles : CrosswordAccepted(f)} :
          /\ sCrossword' = <<crossword>>
          /\ sWords' = [i \in 1..Len(crossword.words) |-> <<>>]
    /\ sOrbitCenter' = <<0, 0, 0>>
    /\ sCurrentWordIndex' = null
    /\ UNCHANGED <<editorVars, reconVars, loadVars, firstVars, asyncVars>>

\* click on "example" while no puzzle is open
SolveExample ==
    /\ ~Opened
    /\ sCrossword' = <<EXAMPLE_CROSSWORD>>
    /\ sWords' = [i \in 1..Len(EXAMPLE_CROSSWORD.words) |-> <<>>]
    /\ sOrbitCenter' = <<0, 0, 0>>
    /\ sCurrentWordIndex' = null
    /\ UNCHANGED <<editorVars, reconVars, loadVars, firstVars, asyncVars>>

\* click on a word of the list
SolveSelectWord ==
    /\ Opened
    /\ sCurrentWordIndex = null
    /\ \E index \in 0..(Len(sWords) - 1) :
          LET w == Puzzle.words[index + 1]
          IN  /\ sCurrentWordIndex' = index
              /\ sOrbitCenter' =
                    wordLetterPosition(w.start, w.direction, Len(w.word) \div 2)
    /\ UNCHANGED <<sCrossword, sWords, editorVars, reconVars, loadVars, firstVars, asyncVars>>

\* click on a letter block of ViewCrossword while the word list is shown
SolveSetOrbitCenter ==
    /\ Opened
    /\ sCurrentWordIndex = null
    /\ \E position \in DOMAIN SolveBlanksFrom(Puzzle.words, 0, 0, NoLetters) :
          sOrbitCenter' = position
    /\ UNCHANGED <<sCrossword, sWords, sCurrentWordIndex, editorVars, reconVars,
                   loadVars, firstVars, asyncVars>>

\* "Back to words"
SolveShowWordList ==
    /\ Opened
    /\ sCurrentWordIndex # null
    /\ sCurrentWordIndex' = null
    /\ UNCHANGED <<sCrossword, sWords, sOrbitCenter, editorVars, reconVars,
                   loadVars, firstVars, asyncVars>>

\* variant: the guess input without the test of the characters
SolveSetWordUnchecked ==
    /\ Opened
    /\ sCurrentWordIndex # null
    /\ \E typed \in TextsUpTo(TypedChars, MaxWordLen) :
          LET word == ToUpperCase(typed)
          IN  /\ Len(word) <= Len(WordAt(Puzzle.words, sCurrentWordIndex).word)
              /\ sWords' = Slice(sWords, 0, sCurrentWordIndex) \o <<word>> \o
                               SliceFrom(sWords, sCurrentWordIndex + 1)
    /\ UNCHANGED <<sCrossword, sCurrentWordIndex, sOrbitCenter, editorVars,
                   reconVars, loadVars, firstVars, asyncVars>>

\* guess input onChange
SolveSetWord ==
    /\ Opened
    /\ sCurrentWordIndex # null
    /\ \E typed \in TextsUpTo(TypedChars, MaxWordLen) :
          LET word == ToUpperCase(typed)
          IN  /\ Len(word) <= Len(WordAt(Puzzle.words, sCurrentWordIndex).word)
              /\ onlyContainsUpperCaseAlphabetsAndSpaces(word)
              /\ sWords' = Slice(sWords, 0, sCurrentWordIndex) \o <<word>> \o
                               SliceFrom(sWords, sCurrentWordIndex + 1)
    /\ UNCHANGED <<sCrossword, sCurrentWordIndex, sOrbitCenter, editorVars,
                   reconVars, loadVars, firstVars, asyncVars>>

----------------------------------------------------------------------------
(* OpenCrossword on the two pages, over a bounded set of files *)

MaxLoadWords == 2

\* characters of the words in the files: two letters and a lower-case one
LoadChars == {"A", "B", "b"}

LoadWords ==
    {FileWord(t, d, c) :
        t \in TextsUpTo(LoadChars, MaxWordLen) \ {<<>>},
        d \in Directions, c \in ReconStarts}

\* JSON values the schema accepts
LoadCrosswords ==
    {[name |-> "N", words |-> words] :
        words \in UNION {[1..n -> LoadWords] : n \in 0..MaxLoadWords}}

\* JSON values the schema refuses: empty name, empty word, unknown direction,
\* start of two numbers, empty description
LoadMisshapen ==
    { [name |-> "", words |-> <<FileWord(<<"A">>, "X", <<0, 0, 0>>)>>],
      [name |-> "N", words |-> <<FileWord(<<>>, "X", <<0, 0, 0>>)>>],
      [name |-> "N", words |-> <<FileWord(<<"A">>, "W", <<0, 0, 0>>)>>],
      [name |-> "N", words |-> <<FileWord(<<"A">>, "X", <<0, 0>>)>>],
      [name |-> "N", words |-> <<[FileWord(<<"A">>, "X", <<0, 0, 0>>)
                                     EXCEPT !.description = ""]>>] }

\* what the file input can be given: nothing, a file that cannot be read,
\* text that is no JSON, text that is JSON
RawFiles ==
    {NoFile, [kind |-> "unreadable"], [kind |-> "text", json |-> <<>>]} \cup
    {[kind |-> "text", json |-> <<value>>] :
        value \in LoadCrosswords \cup LoadMisshapen}

\* on the solve page: one file of each kind, and the files of the solver
SolvePageFiles ==
    {NoFile, [kind |-> "unreadable"], [kind |-> "text", json |-> <<>>]} \cup
    {[kind |-> "text", json |-> <<value>>] : value \in SolveFiles \cup LoadMisshapen}

\* file input of CreateCrosswordMenu: onOpen dispatches SetCrossword
LoadInEditor ==
    /\ route = "create"
    /\ LET outcome == LoadOutcome(lFile)
       IN  /\ fileError' = outcome.error
           /\ lOpened' = (outcome.opened # <<>>)
           /\ IF outcome.opened # <<>>
              THEN /\ state' = SetCrossword(state, outcome.opened[1])
                   /\ snaps' = <<View(state')>>
                   /\ orbitDirty' = FALSE
                   /\ dragging' = FALSE
                   /\ midDragUndos' = 0
                   /\ dragPre' = View(state')
                   /\ UNCHANGED keysMidDrag
              ELSE UNCHANGED editorVars
    /\ UNCHANGED <<route, lFile, reconVars, solveVars, firstVars, asyncVars>>

\* file input of SolveCrossword: onOpen replaces the whole session
LoadInSolver ==
    /\ route = "solve"
    /\ LET outcome == LoadOutcome(lFile)
       IN  /\ fileError' = outcome.error
           /\ lOpened' = (outcome.opened # <<>>)
           /\ IF outcome.opened # <<>>
              THEN /\ sCrossword' = outcome.opened
                   /\ sWords' = [i \in 1..Len(outcome.opened[1].words) |-> <<>>]
                   /\ sOrbitCenter' = <<0, 0, 0>>
                   /\ sCurrentWordIndex' = null
              ELSE UNCHANGED solveVars
    /\ UNCHANGED <<route, lFile, reconVars, editorVars, firstVars, asyncVars>>

----------------------------------------------------------------------------
(* OpenCrossword with the read in flight: onChange starts file.text(), the *)
(* callbacks of then/catch run when the read completes                     *)

\* the files selected: one that cannot be read, one that is no JSON, and
\* three crosswords the loader accepts
AsyncFiles ==
    {[kind |-> "unreadable"], [kind |-> "text", json |-> <<>>]} \cup
    {[kind |-> "text", json |-> <<value>>] : value \in Files}

\* onChange with a file: file.text() is started, nothing else changes
AsyncPick ==
    /\ Len(picks) < MaxPicks
    /\ \E file \in AsyncFiles :
          /\ picks' = Append(picks, file)
          /\ pending' = pending \cup {Len(picks) + 1}
    /\ UNCHANGED <<editorVars, reconVars, solveVars, loadVars, firstVars>>

\* onChange without a file: the message is cleared at once
AsyncPickNothing ==
    /\ Len(picks) < MaxPicks
    /\ picks' = Append(picks, NoFile)
    /\ fileError' = ""
    /\ UNCHANGED <<pending, route, lFile, lOpened, editorVars, reconVars,
                   solveVars, firstVars>>

\* a read completes on /create: the then/catch callbacks of that selection
AsyncResolveInEditor ==
    /\ route = "create"
    /\ \E i \in pending :
          LET outcome == LoadOutcome(picks[i])
          IN  /\ pending' = pending \ {i}
              /\ fileError' = outcome.error
              /\ lOpened' = (outcome.opened # <<>>)
              /\ IF outcome.opened # <<>>
                 THEN /\ state' = SetCrossword(state, outcome.opened[1])
                      /\ snaps' = <<View(state')>>
                      /\ orbitDirty' = FALSE
                      /\ dragging' = FALSE
                      /\ midDragUndos' = 0
                      /\ dragPre' = View(state')
                      /\ UNCHANGED keysMidDrag
                 ELSE UNCHANGED editorVars
    /\ UNCHANGED <<picks, route, lFile, reconVars, solveVars, firstVars>>

\* a read completes on /solve
AsyncResolveInSolver ==
    /\ route = "solve"
    /\ \E i \in pending :
          LET outcome == LoadOutcome(picks[i])
          IN  /\ pending' = pending \ {i}
              /\ fileError' = outcome.error
              /\ lOpened' = (outcome.opened # <<>>)
              /\ IF outcome.opened # <<>>
                 THEN /\ sCrossword' = outcome.opened
                      /\ sWords' = [k \in 1..Len(outcome.opened[1].words) |-> <<>>]
                      /\ sOrbitCenter' = <<0, 0, 0>>
                      /\ sCurrentWordIndex' = null
                 ELSE UNCHANGED solveVars
    /\ UNCHANGED <<picks, route, lFile, reconVars, editorVars, firstVars>>

----------------------------------------------------------------------------
(* EditCrossword, the first-generation editor: useState name, words,       *)
(* currentWordIndex, orbitCenter                                           *)

\* word.length <= 10 in the word input, z.string().max(10) in the schema
FirstMaxLetters == 10
\* IntegerInput min={-10} max={10}, z.number().min(-10).max(10) in the schema
FirstStartLimit == 10

InitialEditCrossword ==
    [name |-> "", words |-> <<>>, currentWordIndex |-> null,
     orbitCenter |-> <<0, 0, 0>>]

\* first-generation crosswordSchema.parse on a parsed JSON value
FirstSchemaAccepts(value) ==
    /\ value.name # ""
    /\ \A k \in 1..Len(value.words) :
          /\ Len(value.words[k].word) >= 1
          /\ Len(value.words[k].word) <= 10
          /\ value.words[k].direction \in {"X", "Y", "Z"}
          /\ Len(value.words[k].start) = 3
          /\ \A i \in 1..3 :
                value.words[k].start[i] >= -10 /\ value.words[k].start[i] <= 10
          /\ value.words[k].description # ""

\* texts typed in the word input: short ones, and one of eleven letters
FirstTexts ==
    {<<>>, <<"A">>, <<"A", "b">>, [i \in 1..(FirstMaxLetters + 1) |-> "A"]}

\* numbers typed in a start field: the limit, and one beyond it
FirstNumbers == {FirstStartLimit, FirstStartLimit + 1}

\* the start fields typed into (X), and the directions chosen
FirstFields == {1}
FirstDirections == {"X", "Y"}

\* the centers explored for dragging and for new words: the origin and the
\* blocks around the start limit on the X axis
FirstExplored(c) ==
    \/ c = <<0, 0, 0>>
    \/ /\ c[1] >= FirstStartLimit - MaxFirstDrag
       /\ c[1] <= FirstStartLimit + MaxFirstDrag
       /\ c[2] = 0
       /\ c[3] = 0

\* where the drag control can be moved to in one step: one block further
\* along X
FirstDragCenters ==
    {c \in {[editCrossword.orbitCenter EXCEPT ![1] = @ + 1]} : FirstExplored(c)}

FirstCurrentWord ==
    WordAt(editCrossword.words, editCrossword.currentWordIndex)

FirstControlsShown ==
    editCrossword.currentWordIndex # null /\ Len(FirstCurrentWord.word) > 0

\* setWords with the current word replaced
FirstReplace(w) ==
    ReplaceWord(editCrossword.words, editCrossword.currentWordIndex, w)

\* setWordCenter
FirstWordCenter(position) ==
    FirstReplace([FirstCurrentWord EXCEPT
                     !.start = StartForCenter(FirstCurrentWord, position)])

EditSetName ==
    /\ \E name \in Names : editCrossword' = [editCrossword EXCEPT !.name = name]
    /\ UNCHANGED <<editorVars, reconVars, solveVars, loadVars, asyncVars>>

\* "+ New word"
EditNewWord ==
    /\ editCrossword.currentWordIndex = null
    /\ Len(editCrossword.words) < MaxFirstWords
    /\ FirstExplored(editCrossword.orbitCenter)
    /\ editCrossword' =
          [editCrossword EXCEPT
              !.words = Append(@, [word |-> <<>>, direction |-> "X",
                                   start |-> editCrossword.orbitCenter,
                                   description |-> ""]),
              !.currentWordIndex = Len(editCrossword.words)]
    /\ UNCHANGED <<editorVars, reconVars, solveVars, loadVars, asyncVars>>

\* click on a word of the list
EditSelectWord ==
    /\ editCrossword.currentWordIndex = null
    /\ \E index \in 0..(Len(editCrossword.words) - 1) :
          LET w == WordAt(editCrossword.words, index)
          IN  editCrossword' =
                  [editCrossword EXCEPT
                      !.currentWordIndex = index,
                      !.orbitCenter = wordLetterPosition(w.start, w.direction,
                                                         Len(w.word) \div 2)]
    /\ UNCHANGED <<editorVars, reconVars, solveVars, loadVars, asyncVars>>

\* the trash button
EditDeleteWord ==
    /\ editCrossword.currentWordIndex = null
    /\ \E index \in 0..(Len(editCrossword.words) - 1) :
          editCrossword' =
              [editCrossword EXCEPT
                  !.orbitCenter =
                      IF orbitCenterHasBlock(editCrossword.words, index,
                                             editCrossword.orbitCenter)
                      THEN @ ELSE <<0, 0, 0>>,
                  !.words = Slice(@, 0, index) \o SliceFrom(@, index + 1)]
    /\ UNCHANGED <<editorVars, reconVars, solveVars, loadVars, asyncVars>>

\* block onClick: only while no word is selected
EditBlockClick ==
    /\ editCrossword.currentWordIndex = null
    /\ \E position \in DOMAIN Letters(editCrossword.words, null) :
          editCrossword' = [editCrossword EXCEPT !.orbitCenter = position]
    /\ UNCHANGED <<editorVars, reconVars, solveVars, loadVars, asyncVars>>

\* "Back"
EditBack ==
    /\ editCrossword.currentWordIndex # null
    /\ editCrossword' = [editCrossword EXCEPT !.currentWordIndex = null]
    /\ UNCHANGED <<editorVars, reconVars, solveVars, loadVars, asyncVars>>

\* direction radio onChange
EditSetDirection ==
    /\ editCrossword.currentWordIndex # null
    /\ \E direction \in FirstDirections :
          LET word == FirstCurrentWord
          IN  editCrossword' =
                  [editCrossword EXCEPT
                      !.orbitCenter = wordLetterPosition(word.start, direction,
                                                         Len(word.word) \div 2),
                      !.words = FirstReplace([word EXCEPT !.direction = direction])]
    /\ UNCHANGED <<editorVars, reconVars, solveVars, loadVars, asyncVars>>

\* IntegerInput onChange with min -10 and max 10, and its onValueChange
EditSetStart ==
    /\ editCrossword.currentWordIndex # null
    /\ \E i \in FirstFields, number \in FirstNumbers :
          LET currentWord == FirstCurrentWord
              newStart == [currentWord.start EXCEPT ![i] = number]
          IN  /\ number >= -10 /\ number <= 10
              /\ editCrossword' =
                    [editCrossword EXCEPT
                        !.orbitCenter =
                            wordLetterPosition(newStart, currentWord.direction,
                                               Len(currentWord.word) \div 2),
                        !.words = FirstReplace([currentWord EXCEPT
                                                   !.start = newStart])]
    /\ UNCHANGED <<editorVars, reconVars, solveVars, loadVars, asyncVars>>

\* word input onChange
EditSetWord ==
    /\ editCrossword.currentWordIndex # null
    /\ \E typed \in FirstTexts :
          LET word == ToUpperCase(typed)
              current == FirstCurrentWord
          IN  /\ Len(word) <= 10
              /\ onlyContainsUpperCaseAlphabetsAndSpaces(word)
              /\ editCrossword' =
                    [editCrossword EXCEPT
                        !.words = FirstReplace([current EXCEPT !.word = word]),
                        !.orbitCenter =
                            wordLetterPosition(current.start, current.direction,
                                               Len(word) \div 2)]
    /\ UNCHANGED <<editorVars, reconVars, solveVars, loadVars, asyncVars>>

\* description textarea onChange
EditSetDescription ==
    /\ editCrossword.currentWordIndex # null
    /\ \E description \in Descriptions :
          editCrossword' =
              [editCrossword EXCEPT
                  !.words = FirstReplace([FirstCurrentWord EXCEPT
                                             !.description = description])]
    /\ UNCHANGED <<editorVars, reconVars, solveVars, loadVars, asyncVars>>

\* WordPositionControls onObjectChange
EditDrag ==
    /\ FirstControlsShown
    /\ \E center \in FirstDragCenters :
          editCrossword' = [editCrossword EXCEPT !.words = FirstWordCenter(center)]
    /\ UNCHANGED <<editorVars, reconVars, solveVars, loadVars, asyncVars>>

\* WordPositionControls onMouseUp
EditDragEnd ==
    /\ FirstControlsShown
    /\ \E center \in FirstDragCenters :
          editCrossword' = [editCrossword EXCEPT
                               !.words = FirstWordCenter(center),
                               !.orbitCenter = center]
    /\ UNCHANGED <<editorVars, reconVars, solveVars, loadVars, asyncVars>>

----------------------------------------------------------------------------
(* Specifications *)

EditorInit ==
    /\ state = InitialState
    /\ dragging = FALSE
    /\ midDragUndos = 0
    /\ keysMidDrag = FALSE
    /\ orbitDirty = FALSE
    /\ snaps = <<View(InitialState)>>
    /\ dragPre = View(InitialState)

ReconIdle ==
    /\ rWords = <<>>
    /\ rCwi = null
    /\ rLetters = NoLetters
    /\ rWi = 0
    /\ rCi = 0

SolveInit ==
    /\ sCrossword = <<>>
    /\ sWords = <<>>
    /\ sCurrentWordIndex = null
    /\ sOrbitCenter = <<0, 0, 0>>

\* no file was picked on the page
LoadIdle(page) ==
    /\ route = page
    /\ lFile = NoFile
    /\ fileError = ""
    /\ lOpened = FALSE

\* no file was selected through the asynchronous file input
AsyncIdle == picks = <<>> /\ pending = {}

\* the first-generation editor was not used
FirstIdle == editCrossword = InitialEditCrossword

Init == EditorInit /\ ReconIdle /\ SolveInit /\ LoadIdle("create") /\ FirstIdle /\ AsyncIdle

Next ==
    \/ DispatchSetCrossword
    \/ DispatchSetName
    \/ DispatchNewWord
    \/ DispatchSelectWord
    \/ DispatchDeleteWord
    \/ DispatchSetOrbitCenter
    \/ DispatchShowWordList
    \/ DispatchSetStart
    \/ DispatchSetDirection
    \/ DispatchSetWord
    \/ DispatchSetDescription
    \/ DispatchDrag
    \/ DispatchDragEnd
    \/ DispatchUndo
    \/ DispatchRedo

Spec == Init /\ [][Next]_vars

\* the editor with Ctrl+Z / Ctrl+Y also pressed while the mouse drags a word
MidDragInit ==
    /\ state = InitialState
    /\ dragging = FALSE
    /\ midDragUndos = 0
    /\ keysMidDrag = TRUE
    /\ orbitDirty = FALSE
    /\ snaps = <<View(InitialState)>>
    /\ dragPre = View(InitialState)
    /\ ReconIdle
    /\ SolveInit
    /\ LoadIdle("create")
    /\ FirstIdle /\ AsyncIdle

SpecMidDrag == MidDragInit /\ [][Next]_vars

ReconInit ==
    /\ EditorInit
    /\ SolveInit
    /\ LoadIdle("create")
    /\ FirstIdle /\ AsyncIdle
    /\ rWords \in ReconLists
    \* no word selected, or the first one: the lists cover every order
    /\ rCwi \in {null} \cup {index \in 0..(Len(rWords) - 1) : index = 0}
    /\ rLetters = NoLetters
    /\ rWi = 0
    /\ rCi = 0

ReconNext == ReconLetter \/ ReconNextWord

SpecRecon == ReconInit /\ [][ReconNext]_vars

SolveSpecInit ==
    EditorInit /\ ReconIdle /\ SolveInit /\ LoadIdle("solve") /\ FirstIdle /\ AsyncIdle

SolveNext ==
    \/ SolveOpen
    \/ SolveExample
    \/ SolveSelectWord
    \/ SolveSetOrbitCenter
    \/ SolveShowWordList
    \/ SolveSetWord

SpecSolve == SolveSpecInit /\ [][SolveNext]_vars

\* one page, one file to pick; the session is edited before and after
LoadInit ==
    /\ EditorInit
    /\ ReconIdle
    /\ SolveInit
    /\ FirstIdle /\ AsyncIdle
    /\ route \in {"create", "solve"}
    /\ lFile \in IF route = "create" THEN RawFiles ELSE SolvePageFiles
    /\ fileError = ""
    /\ lOpened = FALSE

LoadNext ==
    \/ LoadInEditor
    \/ LoadInSolver
    \/ route = "create" /\ (DispatchSetName \/ DispatchNewWord)
    \/ route = "solve" /\ (SolveExample \/ SolveSelectWord \/ SolveSetOrbitCenter
                             \/ SolveShowWordList \/ SolveSetWord)

SpecLoad == LoadInit /\ [][LoadNext]_vars

\* one page; files are selected and their reads complete in any order
AsyncInit ==
    /\ EditorInit
    /\ ReconIdle
    /\ SolveInit
    /\ FirstIdle
    /\ AsyncIdle
    /\ route \in {"create", "solve"}
    /\ lFile = NoFile
    /\ fileError = ""
    /\ lOpened = FALSE

AsyncNext ==
    \/ AsyncPick
    \/ AsyncPickNothing
    \/ AsyncResolveInEditor
    \/ AsyncResolveInSolver

SpecAsync == AsyncInit /\ [][AsyncNext]_vars

FirstNext ==
    \/ EditSetName
    \/ EditNewWord
    \/ EditSelectWord
    \/ EditDeleteWord
    \/ EditBlockClick
    \/ EditBack
    \/ EditSetDirection
    \/ EditSetStart
    \/ EditSetWord
    \/ EditSetDescription
    \/ EditDrag
    \/ EditDragEnd

SpecFirst == Init /\ [][FirstNext]_vars

----------------------------------------------------------------------------
(* Properties of the edit history *)

LastEntry(s) == HistoryAt(s.history, Len(s.history) - 1)
EntryAtCursor(s) == HistoryAt(s.history, s.historyIndex)

RECURSIVE UndoTimes(_, _)
UndoTimes(s, n) == IF n <= 0 THEN s ELSE UndoTimes(Undo(s), n - 1)

\* every state that Undo and Redo keystrokes lead to from the states of S
RECURSIVE UndoRedoReach(_)
UndoRedoReach(S) ==
    LET T == S \cup {Undo(t) : t \in S} \cup {Redo(t) : t \in S}
    IN  IF T = S THEN S ELSE UndoRedoReach(T)

\* the results of every history-recording edit that state s accepts
EditResults(s) ==
    SetNameResults(s) \cup NewWordResults(s) \cup SelectWordResults(s)
    \cup DeleteWordResults(s) \cup ShowWordListResults(s)
    \cup SetStartResults(s) \cup SetDirectionResults(s) \cup SetWordResults(s)
    \cup SetDescriptionResults(s) \cup DragEndResults(s)

\* while the mouse drags a word, only its release can record an edit
EnabledEdits == IF dragging THEN DragEndResults(state) ELSE EditResults(state)

\* C1: in a state reached by edits (no drag in progress, no block click since
\* the last history entry) with historyIndex > 0, Undo followed by Redo gives
\* back the same name, word list, currentWordIndex and orbitCenter.
C1_UndoRedoIdentity ==
    (Clean /\ state.historyIndex > 0) =>
        View(Redo(Undo(state))) = View(state)

\* a state whose last edit deleted a word, so that Undo changes the word list
C1_Witness ==
    /\ Clean
    /\ state.historyIndex > 0
    /\ EntryAtCursor(state).crossword.wordsChange.type = "DeleteWord"
    /\ View(Undo(state)) # View(state)
    /\ Undo(state).orbitCenter # state.orbitCenter

\* C2: when an edit A has been undone (Redo is available) and an edit B with a
\* different result is made, the history ends at B (historyIndex is
\* history.length - 1), Redo is a no-op, and no sequence of Undo and Redo
\* changes the history or brings A's entry back; unless Undo/Redo was pressed
\* in the middle of a drag before, the state shown at B's cursor is never the
\* one A led to.
C2_HistoryTruncation ==
    state.historyIndex < Len(state.history) - 1 =>
        LET lostEntry == HistoryAt(state.history, state.historyIndex + 1)
            lostView == View(Redo(state))
        IN  \A b \in EnabledEdits :
                View(b) # lostView =>
                    /\ b.historyIndex = state.historyIndex + 1
                    /\ b.historyIndex = Len(b.history) - 1
                    /\ Redo(b) = b
                    /\ EntryAtCursor(b) # lostEntry
                    /\ \A t \in UndoRedoReach({b}) :
                          /\ t.history = b.history
                          /\ t.historyIndex <= b.historyIndex
                          /\ HistoryAt(t.history, b.historyIndex) # lostEntry
                          /\ (~tainted /\ t.historyIndex = b.historyIndex) =>
                                View(t) # lostView

\* edit A (a new word) has been undone, and edits with another result exist
C2_Witness ==
    /\ state.historyIndex < Len(state.history) - 1
    /\ Clean
    /\ HistoryAt(state.history, state.historyIndex + 1).crossword.wordsChange.type
          = "NewWord"
    /\ \E b \in EnabledEdits :
          /\ View(b) # View(Redo(state))
          /\ Cardinality(UndoRedoReach({b})) > 1

\* C3: Undo at historyIndex 0 and Redo at the last index leave the state as it
\* is; everywhere else Undo moves historyIndex down by one and Redo up by one;
\* neither changes the history list.
C3_UndoRedoBoundaries ==
    [][ /\ DispatchUndo =>
            /\ state'.history = state.history
            /\ IF state.historyIndex = 0 THEN state' = state
               ELSE state'.historyIndex = state.historyIndex - 1
        /\ DispatchRedo =>
            /\ state'.history = state.history
            /\ IF state.historyIndex = Len(state.history) - 1 THEN state' = state
               ELSE state'.historyIndex = state.historyIndex + 1 ]_vars

\* Undo has been pressed down to the first entry: one more Undo is absorbed
C3_Witness ==
    /\ state.historyIndex = 0
    /\ Len(state.history) = 3
    /\ Undo(state) = state
    /\ Redo(state) # state

\* C4: after history-recording edits and completed drags, undoing down to any
\* cursor k gives the name, word list, currentWordIndex and orbitCenter the
\* state had right after the k-th recorded edit; at k = 0 no word is selected
\* and the orbit center is (0,0,0).  (With a block click since the last entry
\* the live orbit center is the clicked one until the cursor moves.)
C4_DeltaReplay ==
    (~dragging /\ ~tainted) =>
        /\ Len(snaps) = Len(state.history)
        /\ \A k \in 0..state.historyIndex :
              LET t == UndoTimes(state, state.historyIndex - k)
              IN  /\ t.historyIndex = k
                  /\ View(t).name = snaps[k + 1].name
                  /\ View(t).words = snaps[k + 1].words
                  /\ View(t).currentWordIndex = snaps[k + 1].currentWordIndex
                  /\ (k < state.historyIndex \/ ~orbitDirty) =>
                        View(t).orbitCenter = snaps[k + 1].orbitCenter
                  /\ k = 0 =>
                        /\ snaps[1].currentWordIndex = null
                        /\ snaps[1].orbitCenter = <<0, 0, 0>>

\* three recorded edits, among them the deletion of the first of two words
C4_Witness ==
    /\ ~dragging /\ ~tainted
    /\ state.historyIndex = 3
    /\ \E k \in 1..3 :
          /\ HistoryAt(state.history, k).crossword.wordsChange.type = "DeleteWord"
          /\ HistoryAt(state.history, k).crossword.wordsChange.index = 0
          /\ Len(snaps[k].words) = 2
    /\ UndoTimes(state, 3).crossword.words = snaps[1].words
    /\ snaps[1].words # state.crossword.words

\* C5: Drag+ then DragEnd appends exactly one ChangeStart entry; one Undo puts
\* the dragged word's start and the orbit center back to their values before
\* the first Drag; Redo then puts them at the drag's final position.
C5_DragIsOneStep ==
    [][ (dragging /\ DispatchDragEnd) =>
            LET i == dragPre.currentWordIndex
                u == Undo(state')
                r == Redo(u)
            IN  /\ state'.historyIndex = state.historyIndex + 1
                /\ Len(state'.history) = state.historyIndex + 2
                /\ Slice(state'.history, 0, state.historyIndex + 1)
                      = Slice(state.history, 0, state.historyIndex + 1)
                /\ LastEntry(state').crossword.wordsChange.type = "ChangeStart"
                /\ WordAt(u.crossword.words, i).start
                      = WordAt(dragPre.words, i).start
                /\ u.orbitCenter = dragPre.orbitCenter
                /\ WordAt(r.crossword.words, i).start
                      = StartForCenter(WordAt(r.crossword.words, i),
                                       state'.orbitCenter)
                /\ r.orbitCenter = state'.orbitCenter ]_vars

----------------------------------------------------------------------------
(* Reconciliation, stated on what the words place rather than on the fold *)

\* <<word index, letter index>> of every letter of the list
ListLetters ==
    UNION {{<<w, i>> : i \in 0..(Len(rWords[w + 1].word) - 1)} :
              w \in 0..(Len(rWords) - 1)}

LetterPosition(wi) ==
    wordLetterPosition(rWords[wi[1] + 1].start, rWords[wi[1] + 1].direction,
                       wi[2])

\* the letters the fold has placed so far on position
PlacedAt(position) ==
    {wi \in ListLetters :
        /\ wi[1] < rWi \/ (wi[1] = rWi /\ wi[2] < rCi)
        /\ LetterPosition(wi) = position}

CharsAt(position) == {rWords[wi[1] + 1].word[wi[2] + 1] : wi \in PlacedAt(position)}
WordsAt(position) == {wi[1] : wi \in PlacedAt(position)}
ConcreteAt(position) == CharsAt(position) \ {" "}
AllPositions == {LetterPosition(wi) : wi \in ListLetters}
Range(seq) == {seq[n] : n \in 1..Len(seq)}

\* C6: when the list is folded, a coordinate on which two or more words placed
\* differing non-blank letters holds "?" and every word that placed a
\* character there, blank or not, first or later, is invalid.
C6_ConflictInvalidatesAll ==
    ReconDone =>
        \A position \in AllPositions :
            Cardinality(ConcreteAt(position)) >= 2 =>
                /\ position \in DOMAIN rLetters
                /\ rLetters[position].letter = "?"
                /\ \A w \in WordsAt(position) :
                      ~wordValidity(rWords, rLetters)[w + 1]

C6_Witness ==
    /\ ReconDone
    /\ Len(rWords) = 3
    /\ \E position \in AllPositions :
          /\ Cardinality(ConcreteAt(position)) >= 2
          /\ Cardinality(WordsAt(position)) = 3
          /\ " " \in CharsAt(position)
          /\ rWords[1].word[1] \notin {" ", rWords[2].word[1]}
          /\ \A w \in 1..3 : rWords[w].description # ""

\* C7: at every point of the fold, a coordinate holds "?" only if two
\* differing non-blank letters were placed on it, and a coordinate on which
\* some word placed a non-blank letter never shows a blank: blanks neither
\* cause a conflict nor replace a letter, whatever the order of the words.
C7_BlankTransparency ==
    \A position \in DOMAIN rLetters :
        /\ rLetters[position].letter = "?" =>
              Cardinality(ConcreteAt(position)) >= 2
        /\ ConcreteAt(position) # {} => rLetters[position].letter # " "
        /\ Cardinality(ConcreteAt(position)) = 1 =>
              rLetters[position].letter \in ConcreteAt(position)

C7_Witness ==
    /\ ReconDone
    /\ \E position \in DOMAIN rLetters :
          /\ Cardinality(WordsAt(position)) = 3
          /\ rLetters[position].letter = "A"
          /\ rWords[1].word # <<>> /\ rWords[1].word[1] = "A"
          /\ LetterPosition(<<0, 0>>) = position
          /\ \E wi \in PlacedAt(position) :
                wi[1] = 1 /\ rWords[2].word[wi[2] + 1] = " "

\* the injective maps of the indices of the list
Reorderings ==
    {p \in [1..Len(rWords) -> 1..Len(rWords)] :
        \A a, b \in 1..Len(rWords) : p[a] = p[b] => a = b}

\* C8: folding any permutation of the list gives the same coordinates, the
\* same letter on each of them, and the same contributing words once the
\* indices are renamed by the permutation.
C8_OrderIndependent ==
    ReconDone =>
        \A p \in Reorderings :
            LET permuted == [n \in 1..Len(rWords) |-> rWords[p[n]]]
                other == Letters(permuted, null)
            IN  /\ DOMAIN other = DOMAIN rLetters
                /\ \A position \in DOMAIN rLetters :
                      /\ other[position].letter = rLetters[position].letter
                      /\ {p[n + 1] - 1 : n \in Range(other[position].lettersBy)}
                            = Range(rLetters[position].lettersBy)

C8_Witness ==
    /\ ReconDone
    /\ Len(rWords) = 3
    /\ rWords[1] # rWords[2] /\ rWords[2] # rWords[3] /\ rWords[1] # rWords[3]
    /\ Cardinality(DOMAIN rLetters) = 2
    /\ \E position \in DOMAIN rLetters :
          /\ rLetters[position].letter = "?"
          /\ rLetters[position].lettersBy = <<0, 1, 2>>

\* the letter the rule gives a set of placed characters
Reference(chars) ==
    IF chars \ {" "} = {} THEN " "
    ELSE IF Cardinality(chars \ {" "}) = 1
         THEN CHOOSE letter \in chars \ {" "} : TRUE
         ELSE "?"

\* C9: at every point of the fold the coordinates are those something was
\* placed on, each holds the letter of the reference rule for the characters
\* placed on it so far, and its contributor list holds exactly the placing
\* words; a coordinate holding "?" still holds it after every later step.
C9_ReferenceRule ==
    /\ [](/\ DOMAIN rLetters = {position \in AllPositions :
                                     PlacedAt(position) # {}}
          /\ \A position \in DOMAIN rLetters :
                /\ rLetters[position].letter = Reference(CharsAt(position))
                /\ Range(rLetters[position].lettersBy) = WordsAt(position)
                /\ Len(rLetters[position].lettersBy)
                      = Cardinality(WordsAt(position)))
    /\ [][\A position \in DOMAIN rLetters :
             rLetters[position].letter = "?" =>
                 /\ position \in DOMAIN rLetters'
                 /\ rLetters'[position].letter = "?"]_vars

C9_Witness ==
    /\ Len(rWords) = 3
    /\ rWi = 2
    /\ rCi = 1
    /\ \A w \in 1..3 : rWords[w].word # <<>>
    /\ rWords[1].word[1] = "A"
    /\ rWords[2].word[1] = "B"
    /\ rWords[3].word[1] = "A"
    /\ LetterPosition(<<0, 0>>) = LetterPosition(<<2, 0>>)
    /\ LetterPosition(<<1, 0>>) = LetterPosition(<<2, 0>>)
    /\ rLetters[LetterPosition(<<2, 0>>)].letter = "?"
    /\ rLetters[LetterPosition(<<2, 0>>)].lettersBy = <<0, 1, 2>>

----------------------------------------------------------------------------
(* Solving *)

\* C10: once a puzzle is open, solved is TRUE exactly when every guess has
\* the length of its answer and the same character at every index; with no
\* words it is TRUE.
C10_SolvedIffAllEqual ==
    Opened =>
        /\ Len(sWords) = Len(Puzzle.words)
        /\ solved(Puzzle, sWords)
              <=> \A i \in 1..Len(Puzzle.words) :
                     /\ Len(sWords[i]) = Len(Puzzle.words[i].word)
                     /\ \A j \in 1..Len(sWords[i]) :
                           sWords[i][j] = Puzzle.words[i].word[j]
        /\ Len(Puzzle.words) = 0 => solved(Puzzle, sWords)

C10_Witness ==
    /\ Opened
    /\ Len(Puzzle.words) = 2
    /\ solved(Puzzle, sWords)
    /\ sWords[1] = <<"A", "B">>

----------------------------------------------------------------------------
(* Validity and saving *)

\* what CreateCrossword hands to its menu in state s
EditorLetters(s) == Letters(s.crossword.words, s.currentWordIndex)
EditorValidity(s) == wordValidity(s.crossword.words, EditorLetters(s))
EditorAllowSave(s) ==
    allowSave(s.crossword.name, s.crossword.words, EditorLetters(s))

\* C11: in every reachable editor state allowSave is TRUE exactly when every
\* word is valid, the name is not empty and there is at least one word; with
\* no words it is FALSE.
C11_AllowSave ==
    /\ EditorAllowSave(state)
          <=> /\ \A k \in 1..Len(state.crossword.words) : EditorValidity(state)[k]
              /\ state.crossword.name # ""
              /\ Len(state.crossword.words) >= 1
    /\ Len(state.crossword.words) = 0 => ~EditorAllowSave(state)

C11_Witness ==
    /\ EditorAllowSave(state)
    /\ Len(state.crossword.words) = 2
    /\ state.historyIndex = 2
    /\ ~EditorAllowSave(Undo(state))

\* the coordinates of the letter blocks of word w
Blocks(w) ==
    {wordLetterPosition(w.start, w.direction, i) : i \in 0..(Len(w.word) - 1)}

\* C12: in every reachable editor state a word is invalid exactly when its
\* description is empty, or its text is empty, or its text holds a blank, or
\* the reconciled letters hold "?" on one of its letter blocks.
C12_WordValidity ==
    \A k \in 1..Len(state.crossword.words) :
        LET w == state.crossword.words[k] IN
        ~EditorValidity(state)[k]
            <=> \/ w.description = ""
                \/ w.word = <<>>
                \/ \E j \in 1..Len(w.word) : w.word[j] = " "
                \/ \E position \in Blocks(w) :
                      EditorLetters(state)[position].letter = "?"

C12_Witness ==
    /\ Len(state.crossword.words) = 2
    /\ \A k \in 1..2 :
          LET w == state.crossword.words[k] IN
          /\ ~EditorValidity(state)[k]
          /\ w.description # ""
          /\ Len(w.word) = 2
          /\ \A j \in 1..2 : w.word[j] # " "

\* C13: with a puzzle open, a guess is invalid exactly when its length is
\* not the answer's, or it holds a blank, or the letters reconciled from the
\* guesses hold "?" on a coordinate one of its typed letters lies on.
C13_GuessValidity ==
    Opened =>
        LET letters == SolveLetters(Puzzle, sWords)
            validity == solveWordValidity(Puzzle, sWords, letters)
        IN  \A k \in 1..Len(sWords) :
                LET answer == Puzzle.words[k] IN
                ~validity[k]
                    <=> \/ Len(sWords[k]) # Len(answer.word)
                        \/ \E j \in 1..Len(sWords[k]) : sWords[k][j] = " "
                        \/ \E j \in 0..(Len(sWords[k]) - 1) :
                              letters[wordLetterPosition(answer.start,
                                          answer.direction, j)].letter = "?"

C13_Witness ==
    /\ Opened
    /\ Len(sWords) = 2
    /\ LET validity ==
              solveWordValidity(Puzzle, sWords, SolveLetters(Puzzle, sWords))
       IN  /\ ~validity[1] /\ ~validity[2]
           /\ \A k \in 1..2 :
                 /\ Len(sWords[k]) = Len(Puzzle.words[k].word)
                 /\ \A j \in 1..Len(sWords[k]) : sWords[k][j] # " "

----------------------------------------------------------------------------
(* Loading *)

\* a step of the file input, on either page
LoadStep == LoadInEditor \/ LoadInSolver

\* the picked file is JSON the schema accepts
Parsed == lFile.kind = "text" /\ lFile.json # <<>> /\ SchemaAccepts(lFile.json[1])

IsUpperCaseLetter(ch) ==
    CharCode("A") <= CharCode(ch) /\ CharCode(ch) <= CharCode("Z")

\* some word holds a character outside A-Z, at any index
HasOtherCharacter(crossword) ==
    \E k \in 1..Len(crossword.words) :
        \E j \in 1..Len(crossword.words[k].word) :
            ~IsUpperCaseLetter(crossword.words[k].word[j])

\* two words put different letters on one coordinate
Disagrees(crossword) ==
    \E a, b \in 1..Len(crossword.words) :
        \E i \in 1..Len(crossword.words[a].word) :
            \E j \in 1..Len(crossword.words[b].word) :
                /\ wordLetterPosition(crossword.words[a].start,
                                      crossword.words[a].direction, i - 1)
                      = wordLetterPosition(crossword.words[b].start,
                                           crossword.words[b].direction, j - 1)
                /\ crossword.words[a].word[i] # crossword.words[b].word[j]

\* the session of the page, as the load may replace it
Session == <<state, sCrossword, sWords, sCurrentWordIndex, sOrbitCenter>>

\* C14: picking a schema-valid file in which some word holds a character
\* outside A-Z, at whatever index, shows "Invalid crossword", does not call
\* onOpen and leaves the session as it was.
C14_RejectsOtherCharacters ==
    [][ (LoadStep /\ Parsed /\ HasOtherCharacter(lFile.json[1])) =>
            /\ fileError' = "Invalid crossword"
            /\ ~lOpened'
            /\ Session' = Session ]_vars

\* C15: picking a schema-valid file in which two words put different letters
\* on one coordinate shows "Invalid crossword" and does not call onOpen;
\* picking one whose words are all A-Z and agree wherever they meet shows no
\* error and opens that crossword.
C15_RejectsDisagreement ==
    [][ (LoadStep /\ Parsed) =>
            LET crossword == lFile.json[1] IN
            /\ Disagrees(crossword) =>
                  /\ fileError' = "Invalid crossword"
                  /\ ~lOpened'
                  /\ Session' = Session
            /\ (~Disagrees(crossword) /\ ~HasOtherCharacter(crossword)) =>
                  /\ fileError' = ""
                  /\ lOpened'
                  /\ route = "create" => state'.crossword = crossword
                  /\ route = "solve" => sCrossword' = <<crossword>> ]_vars

C15_Witness ==
    /\ Parsed
    /\ Disagrees(lFile.json[1])
    /\ ~HasOtherCharacter(lFile.json[1])
    /\ lFile.json[1].words[1].start # lFile.json[1].words[2].start
    /\ fileError = "Invalid crossword"
    /\ state.historyIndex = 2

\* C16: a pick that fails shows "Invalid file" for text that is no JSON or
\* that the schema refuses, "Couldn't open the file" for a file that cannot
\* be read, "Invalid crossword" for a parsed file the validity check
\* refuses; in each case onOpen is not called and the crossword, guesses,
\* selection, focus, history and historyIndex are those before the pick.
C16_FailedLoadKeepsSession ==
    [][ LoadStep =>
            /\ (lFile.kind = "text" /\ ~Parsed) => fileError' = "Invalid file"
            /\ lFile.kind = "unreadable" => fileError' = "Couldn't open the file"
            /\ (Parsed /\ ~CrosswordAccepted(lFile.json[1])) =>
                  fileError' = "Invalid crossword"
            /\ fileError' # "" => (~lOpened' /\ Session' = Session)
            /\ (fileError' = "" /\ lFile # NoFile) => lOpened' ]_vars

C16_Witness ==
    /\ fileError = "Invalid file"
    /\ lFile.kind = "text"
    /\ lFile.json # <<>>
    /\ ~lOpened
    /\ route = "solve"
    /\ Opened
    /\ sWords[1] = <<"A">>
    /\ sCurrentWordIndex = 0

----------------------------------------------------------------------------
(* Focus and letter positions *)

\* C17: DeleteWord(index), dispatched from the word list, leaves the orbit
\* center where it is when some remaining word has a letter block on it, and
\* puts it at (0,0,0) when none has; the letter blocks of a word are
\* wordLetterPosition(start, direction, i) for 0 <= i < length of its text.
C17_DeleteWordFocus ==
    (~dragging /\ state.currentWordIndex = null) =>
        \A index \in 0..(Len(state.crossword.words) - 1) :
            LET covered ==
                    \E k \in 1..Len(state.crossword.words) :
                        /\ k - 1 # index
                        /\ state.orbitCenter \in Blocks(state.crossword.words[k])
            IN  DeleteWord(state, index).orbitCenter
                    = IF covered THEN state.orbitCenter ELSE <<0, 0, 0>>

\* C18 as stated: in the example, HELLO from (0,0,0) along X and WORLD from
\* (4,1,0) along Y occupy no common coordinate, and reconciling the pair
\* puts "?" nowhere.
C18_ExampleHasNoConflict ==
    (Opened /\ Puzzle.name = "Example") =>
        /\ Puzzle.words[1].word = <<"H", "E", "L", "L", "O">>
        /\ Puzzle.words[2].word = <<"W", "O", "R", "L", "D">>
        /\ Blocks(Puzzle.words[1]) \cap Blocks(Puzzle.words[2]) = {}
        /\ LET letters == Letters(Puzzle.words, sCurrentWordIndex)
           IN  \A position \in DOMAIN letters : letters[position].letter # "?"

\* C18: in the example, HELLO from (0,0,0) along X and WORLD from (4,1,0)
\* along Y (which runs towards decreasing y) occupy exactly one common
\* coordinate, (4,0,0), where both words have the letter O; reconciling the
\* pair puts "?" nowhere.
C18_ExampleCrossesAgreeing ==
    (Opened /\ Puzzle.name = "Example") =>
        /\ Puzzle.words[1].word = <<"H", "E", "L", "L", "O">>
        /\ Puzzle.words[2].word = <<"W", "O", "R", "L", "D">>
        /\ wordLetterPosition(Puzzle.words[1].start, Puzzle.words[1].direction, 4)
              = <<4, 0, 0>>
        /\ wordLetterPosition(Puzzle.words[2].start, Puzzle.words[2].direction, 0)
              = <<4, 1, 0>>
        /\ wordLetterPosition(Puzzle.words[2].start, Puzzle.words[2].direction, 1)
              = <<4, 0, 0>>
        /\ Blocks(Puzzle.words[1]) \cap Blocks(Puzzle.words[2]) = {<<4, 0, 0>>}
        /\ LET letters == Letters(Puzzle.words, sCurrentWordIndex)
           IN  /\ Cardinality(DOMAIN letters) = 9
               /\ \A position \in DOMAIN letters : letters[position].letter # "?"
               /\ letters[<<4, 0, 0>>].letter = "O"
               /\ Len(letters[<<4, 0, 0>>].lettersBy) = 2

C18_Witness ==
    /\ Opened
    /\ Puzzle = EXAMPLE_CROSSWORD
    /\ sWords = <<<<"A", "B">>, <<"B", "A">>>>
    /\ Cardinality(DOMAIN Letters(Puzzle.words, sCurrentWordIndex)) = 9

AxisStep(direction) ==
    CASE direction = "X" -> <<1, 0, 0>>
      [] direction = "Y" -> <<0, -1, 0>>
      [] direction = "Z" -> <<0, 0, 1>>

\* the coordinates the editor holds: the orbit center and every word's start
\* (a drag moves starts below 0 and above MaxCoord)
HeldCoords ==
    {state.orbitCenter}
        \cup {state.crossword.words[k].start : k \in 1..Len(state.crossword.words)}

\* indices on both sides of 0
SignedIndices == (0 - (MaxWordLen + 1))..(MaxWordLen + 1)

\* C19: for every start the editor holds, every axis and every index
\* (negative ones included)
\* wordLetterPosition gives start + index * step with step (1,0,0) for X,
\* (0,-1,0) for Y and (0,0,1) for Z, and going k letters on and k letters back
\* gives the start again; the start that Drag and DragEnd give the selected
\* word for a dragged center c puts letter floor(length / 2) of the word on c.
C19_LetterPositions ==
    /\ \A start \in HeldCoords, direction \in Directions, k \in SignedIndices :
           /\ wordLetterPosition(start, direction, k)
                 = [i \in 1..3 |-> start[i] + k * AxisStep(direction)[i]]
           /\ wordLetterPosition(wordLetterPosition(start, direction, k),
                                 direction, 0 - k) = start
    /\ ControlsShown(state) =>
           \A center \in Coords :
               LET word == CurrentWord(state)
                   middle == Len(word.word) \div 2
               IN  /\ wordLetterPosition(CurrentWord(Drag(state, center)).start,
                                         word.direction, middle) = center
                   /\ wordLetterPosition(CurrentWord(DragEnd(state, center)).start,
                                         word.direction, middle) = center

\* a two-letter word along Y dragged to a center with y = MaxCoord
C19_Witness ==
    /\ dragging
    /\ ControlsShown(state)
    /\ Len(CurrentWord(state).word) = 2
    /\ CurrentWord(state).direction = "Y"
    /\ CurrentWord(state).start[2] = MaxCoord + 1

----------------------------------------------------------------------------
(* Recording of structural edits *)

\* new keeps the entries 0..historyIndex of s, drops the later ones and
\* appends one entry of the given delta kind that stores the name,
\* currentWordIndex and orbitCenter of new
AppendsEntry(s, new, kind) ==
    LET c == s.historyIndex
        entry == HistoryAt(new.history, c + 1)
    IN  /\ new.historyIndex = c + 1
        /\ Len(new.history) = c + 2
        /\ \A i \in 0..c : HistoryAt(new.history, i) = HistoryAt(s.history, i)
        /\ entry.crossword.name = new.crossword.name
        /\ entry.currentWordIndex = new.currentWordIndex
        /\ entry.orbitCenter = new.orbitCenter
        /\ entry.crossword.wordsChange.type = kind

\* C20: NewWord, DeleteWord, SetStart, SetDirection, SetWord, SetDescription,
\* SetName and DragEnd at cursor c keep history entries 0..c, discard the
\* later ones, append exactly one entry and set historyIndex to c + 1; the
\* entry stores the name, currentWordIndex and orbitCenter of the resulting
\* state and a delta of the edit's kind (none for SetName).
C20_StructuralEditsAppend ==
    /\ ~dragging =>
          /\ \A new \in NewWordResults(state) : AppendsEntry(state, new, "NewWord")
          /\ \A new \in DeleteWordResults(state) :
                AppendsEntry(state, new, "DeleteWord")
          /\ \A new \in SetStartResults(state) :
                AppendsEntry(state, new, "ChangeStart")
          /\ \A new \in SetDirectionResults(state) :
                AppendsEntry(state, new, "ChangeDirection")
          /\ \A new \in SetWordResults(state) : AppendsEntry(state, new, "ChangeWord")
          /\ \A new \in SetDescriptionResults(state) :
                AppendsEntry(state, new, "ChangeDescription")
          /\ \A new \in SetNameResults(state) : AppendsEntry(state, new, "null")
    /\ \A new \in DragEndResults(state) : AppendsEntry(state, new, "ChangeStart")

\* two edits have been undone and the next edit of the selected word, which
\* the history bound admits, discards them
C20_Witness ==
    /\ ~dragging
    /\ ControlsShown(state)
    /\ state.historyIndex >= 1
    /\ state.historyIndex + 2 < Len(state.history)
    /\ state.historyIndex + 2 <= HistoryBound
    /\ \E new \in SetStartResults(state) \cup DragEndResults(state) :
          /\ Len(new.history) < Len(state.history)
          /\ new.orbitCenter # state.orbitCenter

----------------------------------------------------------------------------
(* What Drag and the navigation actions leave alone *)

\* C21: Drag changes only the start of the selected word: history,
\* historyIndex, orbitCenter, currentWordIndex, the name, every other word and
\* the selected word's text, direction and description stay as they are.
C21_DragFrame ==
    \A new \in DragResults(state) :
        /\ new.history = state.history
        /\ new.historyIndex = state.historyIndex
        /\ new.orbitCenter = state.orbitCenter
        /\ new.currentWordIndex = state.currentWordIndex
        /\ new.crossword.name = state.crossword.name
        /\ Len(new.crossword.words) = Len(state.crossword.words)
        /\ \A k \in 1..Len(state.crossword.words) :
              IF k - 1 = state.currentWordIndex
              THEN /\ new.crossword.words[k].word = state.crossword.words[k].word
                   /\ new.crossword.words[k].direction
                         = state.crossword.words[k].direction
                   /\ new.crossword.words[k].description
                         = state.crossword.words[k].description
              ELSE new.crossword.words[k] = state.crossword.words[k]

\* in the middle of a drag: the selected word, one of two, has left the start
\* it had when the drag began
C21_Witness ==
    /\ dragging
    /\ Len(state.crossword.words) = 2
    /\ state.historyIndex < Len(state.history) - 1
    /\ CurrentWord(state).start # WordAt(dragPre.words, state.currentWordIndex).start
    /\ state.orbitCenter = dragPre.orbitCenter

\* C22: SelectWord, ShowWordList and SetOrbitCenter leave the name, the word
\* list, the history and historyIndex unchanged, so that where Redo was
\* available before one of them it is available after it.
C22_NavigationLeavesHistory ==
    ~dragging =>
        \A new \in SelectWordResults(state) \cup ShowWordListResults(state)
                       \cup SetOrbitCenterResults(state) :
            /\ new.crossword = state.crossword
            /\ new.history = state.history
            /\ new.historyIndex = state.historyIndex
            /\ state.historyIndex < Len(state.history) - 1 =>
                   /\ new.historyIndex < Len(new.history) - 1
                   /\ Redo(new) # new

----------------------------------------------------------------------------
(* The loaded state and the shape of the history *)

\* C23: the editor starts with the empty crossword, and SetCrossword(c) gives
\* crossword c, in both cases with currentWordIndex null, orbitCenter (0,0,0),
\* a history of exactly one entry with a null delta and historyIndex 0; right
\* after SetCrossword Undo and Redo change nothing, whatever the history was.
C23_SetCrosswordResets ==
    /\ InitialState.crossword = [name |-> "", words |-> <<>>]
    /\ InitialState.currentWordIndex = null
    /\ InitialState.orbitCenter = <<0, 0, 0>>
    /\ Len(InitialState.history) = 1
    /\ HistoryAt(InitialState.history, 0).crossword.wordsChange = NoChange
    /\ InitialState.historyIndex = 0
    /\ \A crossword \in {f \in Files : CrosswordAccepted(f)} \cup {EmptyCrossword} :
          LET new == SetCrossword(state, crossword)
          IN  /\ new \in SetCrosswordResults(state)
              /\ new.crossword = crossword
              /\ new.currentWordIndex = null
              /\ new.orbitCenter = <<0, 0, 0>>
              /\ Len(new.history) = 1
              /\ HistoryAt(new.history, 0).crossword.wordsChange = NoChange
              /\ new.historyIndex = 0
              /\ Undo(new) = new
              /\ Redo(new) = new

\* a load is possible where a word is selected away from the origin and both
\* Undo and Redo would act
C23_Witness ==
    /\ ~dragging
    /\ Len(state.history) >= 3
    /\ 1 <= state.historyIndex
    /\ state.historyIndex < Len(state.history) - 1
    /\ state.orbitCenter # <<0, 0, 0>>
    /\ Undo(state) # state
    /\ Redo(state) # state

\* C24: in every reachable editor state the history is non-empty,
\* 0 <= historyIndex <= history.length - 1, history[0] has a null delta, and
\* the name and currentWordIndex shown are the ones stored in
\* history[historyIndex].
C24_HistoryShape ==
    /\ Len(state.history) >= 1
    /\ 0 <= state.historyIndex
    /\ state.historyIndex <= Len(state.history) - 1
    /\ HistoryAt(state.history, 0).crossword.wordsChange = NoChange
    /\ state.crossword.name = EntryAtCursor(state).crossword.name
    /\ state.currentWordIndex = EntryAtCursor(state).currentWordIndex

\* a named crossword with a selected word, after an Undo, with entries on
\* both sides of the cursor
C24_Witness ==
    /\ 1 <= state.historyIndex
    /\ state.historyIndex < Len(state.history) - 1
    /\ state.crossword.name # ""
    /\ state.currentWordIndex # null

----------------------------------------------------------------------------
(* Reconciliation in solving mode *)

\* the guesses as words of their own: guess text, answer's direction and start
GuessWords ==
    [k \in 1..Len(sWords) |-> [Puzzle.words[k] EXCEPT !.word = sWords[k]]]

AnswerBlocks == UNION {Blocks(Puzzle.words[k]) : k \in 1..Len(Puzzle.words)}

\* C25: for the opened puzzle and the guesses (none longer than its answer),
\* the letters of CrosswordMenu and those of ViewCrossword have the same letter
\* and the same contributor list at every coordinate, and both are the
\* authoring reconciliation of the guesses placed at their answers' start and
\* direction, with a blank without contributors at every answer coordinate no
\* guess reaches.
C25_SolvingIsAuthoring ==
    (/\ Opened
     /\ Len(sWords) = Len(Puzzle.words)
     /\ \A k \in 1..Len(sWords) : Len(sWords[k]) <= Len(Puzzle.words[k].word)) =>
        LET menu == SolveLetters(Puzzle, sWords)
            view == ViewLetters(Puzzle, sWords, sCurrentWordIndex)
            authoring == Letters(GuessWords, sCurrentWordIndex)
        IN  /\ DOMAIN menu = AnswerBlocks
            /\ DOMAIN view = AnswerBlocks
            /\ DOMAIN authoring \subseteq AnswerBlocks
            /\ \A position \in AnswerBlocks :
                  /\ menu[position].letter = view[position].letter
                  /\ menu[position].lettersBy = view[position].lettersBy
                  /\ IF position \in DOMAIN authoring
                     THEN /\ menu[position].letter = authoring[position].letter
                          /\ menu[position].lettersBy
                                = authoring[position].lettersBy
                     ELSE /\ menu[position].letter = " "
                          /\ menu[position].lettersBy = <<>>

\* two guesses disagree on a shared block while another answer block has no
\* guess yet, with a word selected
C25_Witness ==
    /\ Opened
    /\ sCurrentWordIndex # null
    /\ Len(sWords) = Len(Puzzle.words)
    /\ LET menu == SolveLetters(Puzzle, sWords)
       IN  /\ \E position \in DOMAIN menu :
                 /\ menu[position].letter = "?"
                 /\ Len(menu[position].lettersBy) = 2
           /\ \E position \in DOMAIN menu : menu[position].lettersBy = <<>>

\* C26: once a crossword is opened, and after any guess edits, there is one
\* guess per puzzle word, every guess is at most as long as its answer and
\* consists of A-Z and spaces; so every guess character lands on an answer
\* block and the lattice has exactly the answer blocks as its coordinates.
C26_GuessesFitAnswers ==
    Opened =>
        /\ Len(sWords) = Len(Puzzle.words)
        /\ \A k \in 1..Len(sWords) :
              /\ Len(sWords[k]) <= Len(Puzzle.words[k].word)
              /\ \A j \in 1..Len(sWords[k]) :
                    sWords[k][j] = " " \/ IsUpperCaseLetter(sWords[k][j])
              /\ Blocks(GuessWords[k]) \subseteq Blocks(Puzzle.words[k])
        /\ DOMAIN SolveLetters(Puzzle, sWords) = AnswerBlocks
        /\ DOMAIN ViewLetters(Puzzle, sWords, sCurrentWordIndex) = AnswerBlocks

\* two answers, one guess complete with a space in it, the other shorter than
\* its answer
C26_Witness ==
    /\ Opened
    /\ Len(sWords) = 2
    /\ \E k \in 1..2 :
          /\ Len(sWords[k]) = MaxWordLen
          /\ Len(sWords[k]) = Len(Puzzle.words[k].word)
          /\ \E j \in 1..Len(sWords[k]) : sWords[k][j] = " "
          /\ \E j \in 1..Len(sWords[k]) : sWords[k][j] # " "
    /\ \E k \in 1..2 :
          /\ 0 < Len(sWords[k])
          /\ Len(sWords[k]) < Len(Puzzle.words[k].word)

----------------------------------------------------------------------------
(* Selection, word texts and focus in the editor *)

\* null and every index of the word list
Selections(words) == {null} \cup (0..(Len(words) - 1))

\* C27: for the editor's word list, whichever word is selected (or none) the
\* reconciliation has the same coordinates, the same letter and the same
\* contributor list at each, hence the same per-word validity and allowSave;
\* an entry differs between two selections in its opacity at most.
C27_SelectionDoesNotResolve ==
    LET words == state.crossword.words
        name == state.crossword.name
        base == Letters(words, null)
    IN  \A currentWordIndex \in Selections(words) :
            LET letters == Letters(words, currentWordIndex)
            IN  /\ DOMAIN letters = DOMAIN base
                /\ \A position \in DOMAIN base :
                      /\ letters[position].letter = base[position].letter
                      /\ letters[position].lettersBy = base[position].lettersBy
                      /\ [letters[position] EXCEPT !.opacity = 10] = base[position]
                /\ wordValidity(words, letters) = wordValidity(words, base)
                /\ allowSave(name, words, letters) = allowSave(name, words, base)

\* two words disagree on a block, and selecting one of them dims a block of
\* the other
C27_Witness ==
    LET words == state.crossword.words
    IN  /\ Len(words) >= 2
        /\ state.currentWordIndex # null
        /\ \E position \in DOMAIN EditorLetters(state) :
              EditorLetters(state)[position].letter = "?"
        /\ \E position \in DOMAIN EditorLetters(state) :
              EditorLetters(state)[position].opacity = 1

\* C28: in every reachable editor state every word's text consists of the
\* characters A-Z and space only, whether typed (SetWord) or loaded from an
\* accepted file (SetCrossword).
C28_WordTextsUpperCase ==
    \A k \in 1..Len(state.crossword.words) :
        \A j \in 1..Len(state.crossword.words[k].word) :
            LET ch == state.crossword.words[k].word[j]
            IN  ch = " " \/ IsUpperCaseLetter(ch)

\* C29: under the editor's dispatch guards, in every reachable state (Undo and
\* Redo at any time included) currentWordIndex is null or an index of the word
\* list, 0 <= currentWordIndex < words.length.
C29_SelectionInRange ==
    \/ state.currentWordIndex = null
    \/ /\ 0 <= state.currentWordIndex
       /\ state.currentWordIndex < Len(state.crossword.words)

\* the last word of the list is selected, after Ctrl+Z or Ctrl+Y in the middle
\* of a drag, with an entry left to redo
C29_Witness ==
    /\ tainted
    /\ state.currentWordIndex # null
    /\ state.currentWordIndex = Len(state.crossword.words) - 1
    /\ state.historyIndex < Len(state.history) - 1

\* C30: whenever a word is selected and no drag is in progress, orbitCenter is
\* the center block of the selected word,
\* wordLetterPosition(start, direction, floor(length / 2)), so that the
\* previousStart DragEnd derives from orbitCenter is the start the word has.
C30_FocusOnSelectedWord ==
    (state.currentWordIndex # null /\ ~dragging) =>
        LET word == CurrentWord(state)
        IN  /\ state.orbitCenter
                  = wordLetterPosition(word.start, word.direction,
                                       Len(word.word) \div 2)
            /\ StartForCenter(word, state.orbitCenter) = word.start

----------------------------------------------------------------------------
(* Undo and Redo after block clicks and in the middle of a drag *)

\* C31: in every reachable state with historyIndex > 0 and no drag in
\* progress, also one whose last action was a block click (SetOrbitCenter),
\* Undo followed by Redo gives the state back, the clicked orbitCenter
\* included.
C31_UndoRedoIdentityEverywhere ==
    (~dragging /\ state.historyIndex > 0) => Redo(Undo(state)) = state

\* C32: once Undo or Redo has been pressed between a Drag and its DragEnd,
\* undoing to any cursor k still gives the word list that existed right after
\* the k-th recorded edit (at k = 0 the initial or loaded word list).
C32_MidDragUndoKeepsHistory ==
    (tainted /\ ~dragging) =>
        \A n \in 0..state.historyIndex :
            UndoTimes(state, n).crossword.words
                = snaps[state.historyIndex - n + 1].words

----------------------------------------------------------------------------
(* Solved puzzles, solvability and the save/load round trip *)

\* C33: in solving mode, for every crossword the loader accepts and every
\* reachable guess state, when solved is true every word's validity flag is
\* true.
C33_SolvedMeansAllValid ==
    (Opened /\ solved(Puzzle, sWords)) =>
        LET validity == solveWordValidity(Puzzle, sWords,
                                          SolveLetters(Puzzle, sWords))
        IN  \A k \in 1..Len(validity) : validity[k]

\* C34: every crossword the loader accepts can be solved: each answer is a
\* text the guess input accepts (upper-cased it is itself, it has only A-Z and
\* spaces, it is no longer than the answer), so that selecting each word and
\* typing its answer ends with solved.
C34_AcceptedIsSolvable ==
    Opened =>
        \A k \in 1..Len(Puzzle.words) :
            LET answer == Puzzle.words[k].word
            IN  /\ ToUpperCase(answer) = answer
                /\ onlyContainsUpperCaseAlphabetsAndSpaces(answer)

\* the answer 'Ab' is never matched by a guess
UnsolvableStaysUnsolved ==
    (Opened /\ Puzzle.words = <<FileWord(<<"A", "b">>, "X", <<0, 0, 0>>)>>) =>
        ~solved(Puzzle, sWords)

\* C35: in every reachable editor state in which allowSave is true, the
\* exported { name, words } passes the loader's schema and validity check, and
\* SetCrossword of what the loader hands over has the name and the word list
\* of the state that was saved.
C35_SaveLoadRoundTrip ==
    EditorAllowSave(state) =>
        LET outcome == LoadOutcome(ExportedFile(state))
        IN  /\ SchemaAccepts(ExportedFile(state).json[1])
            /\ CrosswordAccepted(ExportedFile(state).json[1])
            /\ outcome.error = ""
            /\ outcome.opened # <<>>
            /\ SetCrossword(state, outcome.opened[1]).crossword = state.crossword

\* a saveable state with two words that share a block, reached by edits
C35_Witness ==
    /\ EditorAllowSave(state)
    /\ state.historyIndex >= 2
    /\ Len(state.crossword.words) = 2
    /\ \E position \in DOMAIN EditorLetters(state) :
          Len(EditorLetters(state)[position].lettersBy) = 2

FirstAllowSave ==
    allowSave(editCrossword.name, editCrossword.words,
              Letters(editCrossword.words, editCrossword.currentWordIndex))

\* C36: in the first-generation editor, after any sequence of operations,
\* every word has at most 10 letters and every start component lies in
\* [-10, 10], so every state with allowSave true exports { name, words } that
\* the first-generation schema accepts.
C36_FirstSaveLoads ==
    /\ \A k \in 1..Len(editCrossword.words) :
          /\ Len(editCrossword.words[k].word) <= FirstMaxLetters
          /\ \A i \in 1..3 :
                /\ 0 - FirstStartLimit <= editCrossword.words[k].start[i]
                /\ editCrossword.words[k].start[i] <= FirstStartLimit
    /\ FirstAllowSave =>
          FirstSchemaAccepts([name |-> editCrossword.name,
                              words |-> editCrossword.words])

\* the export offered by "Save crossword" is accepted by the schema
FirstSaveAccepted ==
    FirstAllowSave =>
        FirstSchemaAccepts([name |-> editCrossword.name,
                            words |-> editCrossword.words])

\* the length limit of the word input alone
FirstWordsShort ==
    \A k \in 1..Len(editCrossword.words) :
        Len(editCrossword.words[k].word) <= FirstMaxLetters

\* the editor holds a crossword just opened from the picked file, unedited
JustOpened ==
    /\ route = "create"
    /\ lOpened
    /\ lFile.kind = "text"
    /\ state = SetCrossword(state, lFile.json[1])

\* C37: every crossword the second-generation loader accepts is immediately
\* saveable in the editor: after SetCrossword of an accepted file and no
\* edits, every word is valid and allowSave is true.
C37_AcceptedIsSaveable ==
    JustOpened =>
        /\ \A k \in 1..Len(state.crossword.words) : EditorValidity(state)[k]
        /\ EditorAllowSave(state)

\* the same for the accepted files that hold at least one word
NonEmptyAcceptedIsSaveable ==
    (JustOpened /\ Len(state.crossword.words) > 0) =>
        /\ \A k \in 1..Len(state.crossword.words) : EditorValidity(state)[k]
        /\ EditorAllowSave(state)

\* every read has completed, and the last two selections were files
ReadsDone ==
    /\ pending = {}
    /\ Len(picks) >= 2
    /\ picks[Len(picks)] # NoFile
    /\ picks[Len(picks) - 1] # NoFile

\* the crossword the page holds
Installed == IF route = "create" THEN <<state.crossword>> ELSE sCrossword

\* C38: when file A and then file B are selected, whatever order their reads
\* complete in, the error message finally shown is that of file B, and the
\* crossword finally installed is that of file B when B is accepted.
C38_LastSelectionWins ==
    ReadsDone =>
        LET outcome == LoadOutcome(picks[Len(picks)])
        IN  /\ fileError = outcome.error
            /\ outcome.opened # <<>> => Installed = outcome.opened

====
